---- MODULE Spec2Model ----
(***************************************************************************)
(* Model of the streaming pipeline of copilot-chat:                        *)
(*   - Streamer::process_buffer / Streamer::handle_stream (chat/stream.rs) *)
(*   - ChatStreamer::write_at_end                        (chat/stream.rs)  *)
(*   - Chat::send_message_with_stream                    (chat/core.rs)    *)
(*                                                                         *)
(* Bytes are modelled as one-symbol strings.  The separator, the event     *)
(* prefix and the [DONE] marker are spelled byte by byte; a JSON payload   *)
(* is spelled as an opening token, the characters of its string value and  *)
(* a closing token, so that serde_json's parsing is modelled by what it    *)
(* extracts from the payload.                                              *)
(*                                                                         *)
(* and of its tools: LineSequence and DiffsManager (tools/diff.rs), and    *)
(* Chat::process_file (chat/core.rs) over FileReader and TrackedFile       *)
(* (tools/files.rs) and the Readable and ReaderTool traits                 *)
(* (tools/reader.rs).                                                      *)
(*                                                                         *)
(* Spec        is send_message_with_stream from the creation of the        *)
(*             channel on: handle_stream on the calling task, write_at_end *)
(*             on the spawned task, a transport and a sink that may fail.  *)
(* SpecDecoder is handle_stream on its own, over a wider set of bodies.    *)
(* In both the transport cuts the body into chunks at arbitrary offsets.   *)
(* SpecDiff    runs from_lines and from_myers_algorithm on a pair of line  *)
(*             lists.                                                      *)
(* SpecTracker is a sequence of process_file calls on a directory whose    *)
(*             files other programs write and remove.                      *)
(* SpecFrame   is SpecTracker on paths without range, long enough for a    *)
(*             third reference; SpecRange is SpecTracker on the arguments  *)
(*             of one path, with and without range.                        *)
(* SpecDelta   is handle_stream on completion events with and without      *)
(*             text.                                                       *)
(* SpecTurn    is a session of send_message_with_stream calls, each with   *)
(*             its message type, file arguments and response body.         *)
(* SpecStore   is save_chat, remove_chat and try_load_chat on the cache    *)
(*             directory.                                                  *)
(* SpecPressure is the pipeline on a body of more deltas than the channel  *)
(*             holds; SpecCancel is the pipeline whose caller may drop     *)
(*             the future of send_message_with_stream.                     *)
(* SpecBlock   is SpecTracker on files of one and two lines, for the diff   *)
(*             blocks; SpecFiles is SpecTurn on messages that reference    *)
(*             two files.                                                  *)
(* SpecRace    is process_file step by step, interleaved with the writers  *)
(*             of the directory; SpecRestore is a session that is saved    *)
(*             and loaded between its references.                          *)
(* SpecLive    is SpecPressure on a runtime that keeps running both tasks. *)
(***************************************************************************)
EXTENDS Integers, Sequences, FiniteSets, TLC

\* ------------------------------------------------------------------ bounds
\* The largest number of events in a response body fed to handle_stream alone
MaxEvents == 3
\* The largest number of events in a response body of the whole pipeline
MaxPipelineEvents == 3

\* ------------------------------------------------------- program constants
\* tokio::sync::mpsc::channel(32)
ChannelCapacity == 32

CHUNK_SEPARATOR == <<"\n", "\n">>
DATA_PREFIX == <<"d", "a", "t", "a", ":", " ">>
DONE_MARKER == <<"[", "D", "O", "N", "E", "]">>

\* ------------------------------------------------------ payload alphabet
\* {"choices":[{"index":0,"delta":{"content":"  ...  "}}]}
RespOpen == "{\"choices\":[{\"index\":0,\"delta\":{\"content\":\""
RespClose == "\"}}]}"
\* {"choices":[{"index":0}]}   (a choice without a delta)
RespNoDelta == "{\"choices\":[{\"index\":0}]}"
\* {"choices":[{"index":0,"delta":{}}]}   (a delta without content)
RespNoContent == "{\"choices\":[{\"index\":0,\"delta\":{}}]}"
\* {"error":{"message":"  ...  "}}
ErrOpen == "{\"error\":{\"message\":\""
ErrClose == "\"}}"
\* characters that may occur inside a JSON string value
TextChars == {"a", "b", "c", "X", "Y"}

\* Option<T>
None == [some |-> FALSE]
Some(v) == [some |-> TRUE, val |-> v]

\* ---------------------------------------------------------- byte helpers
\* slice[from..] with a 0-based offset
SliceFrom(s, from) == SubSeq(s, from + 1, Len(s))

\* slice[from..to] with 0-based offsets, `to` exclusive
Slice(s, from, to) == SubSeq(s, from + 1, to)

\* <[u8]>::starts_with
StartsWith(s, prefix) ==
    /\ Len(s) >= Len(prefix)
    /\ SubSeq(s, 1, Len(prefix)) = prefix

RECURSIVE WindowPosition(_, _, _)
\* slice.windows(sep.len()).position(|w| w == sep), searching from window i;
\* -1 stands for Option::None
WindowPosition(slice, sep, i) ==
    IF i + Len(sep) > Len(slice) THEN -1
    ELSE IF Slice(slice, i, i + Len(sep)) = sep THEN i
    ELSE WindowPosition(slice, sep, i + 1)

\* buffer[pos..].windows(CHUNK_SEPARATOR.len()).position(|w| w == CHUNK_SEPARATOR)
SeparatorPos(buffer, pos) ==
    WindowPosition(SliceFrom(buffer, pos), CHUNK_SEPARATOR, 0)

\* ------------------------------------------------------------ serde_json
\* serde_json::from_slice::<CopilotResponse>(json_data): the parsed value
\* of a payload that has the completion shape, None for any other payload.
\* The value is the list of choices, each with its Option<Delta>.
ParseCopilotResponse(json_data) ==
    IF json_data = <<RespNoDelta>>
    THEN Some(<<[delta |-> None]>>)
    ELSE IF json_data = <<RespNoContent>>
    THEN Some(<<[delta |-> Some([content |-> None])]>>)
    ELSE IF /\ Len(json_data) >= 2
            /\ json_data[1] = RespOpen
            /\ json_data[Len(json_data)] = RespClose
            /\ \A i \in 2..(Len(json_data) - 1) : json_data[i] \in TextChars
    THEN Some(<<[delta |-> Some([content |->
                    Some(SubSeq(json_data, 2, Len(json_data) - 1))])]>>)
    ELSE None

\* serde_json::from_slice::<CopilotError>(json_data): error.message, or None
ParseCopilotError(json_data) ==
    IF /\ Len(json_data) >= 2
       /\ json_data[1] = ErrOpen
       /\ json_data[Len(json_data)] = ErrClose
       /\ \A i \in 2..(Len(json_data) - 1) : json_data[i] \in TextChars
    THEN Some(SubSeq(json_data, 2, Len(json_data) - 1))
    ELSE None

\* the text of the serde_json error `e` in "cannot parse chunk: {e}"
SerdeError == "expected value"

\* --------------------------------------------------------- process_buffer
\* Results of process_buffer: Ok(None), Ok(Some((chunks, advance))), Err(msg)
OkNone == [tag |-> "None"]
OkSome(chunks, advance) == [tag |-> "Some", chunks |-> chunks, advance |-> advance]
Err(msg) == [tag |-> "Err", msg |-> msg]

\* (a variant that reports nothing when no delta was decoded)
FinishChunksOnly(chunks, total_consumed) ==
    IF chunks = <<>> THEN OkNone ELSE OkSome(chunks, total_consumed)

\* the tail of process_buffer (lines 124-128)
Finish(chunks, total_consumed) ==
    IF chunks = <<>> /\ total_consumed = 0
    THEN OkNone
    ELSE OkSome(chunks, total_consumed)

\* (a variant that puts the new content in front of the collected ones)
PushContentFront(chunks, choices) ==
    IF Len(choices) = 0 THEN chunks
    ELSE LET choice == choices[1]
         IN  IF ~choice.delta.some THEN chunks
             ELSE IF ~choice.delta.val.content.some THEN chunks
             ELSE <<choice.delta.val.content.val>> \o chunks

\* the content pushed for a successfully parsed CopilotResponse (lines 91-97)
PushContent(chunks, choices) ==
    IF Len(choices) = 0 THEN chunks
    ELSE LET choice == choices[1]
         IN  IF ~choice.delta.some THEN chunks
             ELSE IF ~choice.delta.val.content.some THEN chunks
             ELSE Append(chunks, choice.delta.val.content.val)

\* (a variant that leaves the loop without having set total_consumed)
OnDoneStale(chunks, total_consumed, next) == Finish(chunks, total_consumed)

\* the [DONE] branch (lines 82-86): total_consumed is set past the event
\* and the loop is left
OnDone(chunks, total_consumed, next) == Finish(chunks, next)

\* (a variant that reports every failure as a parse failure)
OnParseFailureGeneric(json_data) == Err(<<"cannot parse chunk: ", SerdeError>>)

\* the Err(_) arm of the CopilotResponse parse (lines 99-111)
OnParseFailure(json_data) ==
    LET err == ParseCopilotError(json_data)
    IN  IF err.some
        THEN Err(err.val)
        ELSE Err(<<"cannot parse chunk: ", SerdeError>>)

RECURSIVE ScanBufferLenient(_, _, _, _)
\* (a variant that ends the scan at a payload it cannot parse and returns
\* what it has decoded before it)
ScanBufferLenient(buffer, pos, chunks, total_consumed) ==
    IF ~(pos < Len(buffer)) THEN Finish(chunks, total_consumed)
    ELSE
    LET separator_pos == SeparatorPos(buffer, pos)
    IN  IF separator_pos = -1 THEN Finish(chunks, total_consumed)
        ELSE
        LET chunk == Slice(buffer, pos, pos + separator_pos)
            next == pos + separator_pos + Len(CHUNK_SEPARATOR)
        IN  IF ~StartsWith(chunk, DATA_PREFIX)
            THEN ScanBufferLenient(buffer, next, chunks, next)
            ELSE
            LET json_data == SliceFrom(chunk, Len(DATA_PREFIX))
                resp_msg == ParseCopilotResponse(json_data)
            IN  IF StartsWith(json_data, DONE_MARKER)
                THEN OnDone(chunks, total_consumed, next)
                ELSE IF resp_msg.some
                THEN ScanBufferLenient(buffer, next,
                                       PushContent(chunks, resp_msg.val), next)
                ELSE IF chunks # <<>> THEN Finish(chunks, total_consumed)
                ELSE OnParseFailure(json_data)

RECURSIVE ScanBuffer(_, _, _, _)
\* the while loop of process_buffer (lines 68-122)
ScanBuffer(buffer, pos, chunks, total_consumed) ==
    IF ~(pos < Len(buffer)) THEN Finish(chunks, total_consumed)
    ELSE
    LET separator_pos == SeparatorPos(buffer, pos)
    IN  IF separator_pos = -1 THEN Finish(chunks, total_consumed)
        ELSE
        LET chunk_end == pos + separator_pos
            chunk == Slice(buffer, pos, chunk_end)
            next == pos + separator_pos + Len(CHUNK_SEPARATOR)
        IN  IF ~StartsWith(chunk, DATA_PREFIX)
            THEN ScanBuffer(buffer, next, chunks, next)
            ELSE
            LET json_data == SliceFrom(chunk, Len(DATA_PREFIX))
            IN  IF StartsWith(json_data, DONE_MARKER)
                THEN OnDone(chunks, total_consumed, next)
                ELSE
                LET resp_msg == ParseCopilotResponse(json_data)
                IN  IF resp_msg.some
                    THEN ScanBuffer(buffer, next,
                                    PushContent(chunks, resp_msg.val), next)
                    ELSE OnParseFailure(json_data)

\* Streamer::process_buffer
ProcessBuffer(buffer) ==
    IF buffer = <<>> THEN OkNone
    ELSE ScanBuffer(buffer, 0, <<>>, 0)

\* ------------------------------------------------------------- the input
\* The events a response body is made of.  `text` is the delta content of a
\* content event and the message of an error event.
ContentEvent(t) == [kind |-> "content", text |-> t]
ErrorEvent(m) == [kind |-> "error", text |-> m]
DoneEvent == [kind |-> "done", text |-> <<>>]
GarbageEvent == [kind |-> "garbage", text |-> <<>>]
CommentEvent == [kind |-> "comment", text |-> <<>>]
NoDeltaEvent == [kind |-> "nodelta", text |-> <<>>]
NoContentEvent == [kind |-> "nocontent", text |-> <<>>]

Texts == {<<"a">>, <<"b", "c">>}
Messages == {<<"X">>}

EventKinds ==
    {ContentEvent(t) : t \in Texts} \cup {ErrorEvent(m) : m \in Messages}
        \cup {DoneEvent, GarbageEvent, CommentEvent}

\* the bytes of one event as the service frames it: <prefix><payload>\n\n
Payload(e) ==
    CASE e.kind = "content" -> <<RespOpen>> \o e.text \o <<RespClose>>
      [] e.kind = "error" -> <<ErrOpen>> \o e.text \o <<ErrClose>>
      [] e.kind = "done" -> DONE_MARKER
      [] e.kind = "garbage" -> <<"o", "o", "p", "s">>
      [] e.kind = "nodelta" -> <<RespNoDelta>>
      [] e.kind = "nocontent" -> <<RespNoContent>>
      [] OTHER -> <<>>

RenderEvent(e) ==
    IF e.kind = "comment"
    THEN <<":", "k">> \o CHUNK_SEPARATOR
    ELSE DATA_PREFIX \o Payload(e) \o CHUNK_SEPARATOR

RECURSIVE Render(_)
Render(evs) ==
    IF evs = <<>> THEN <<>>
    ELSE RenderEvent(Head(evs)) \o Render(Tail(evs))

EventLists == UNION {[1..n -> EventKinds] : n \in 0..MaxEvents}

\* the events of the bodies the whole pipeline is run on
PipelineEventKinds ==
    {ContentEvent(t) : t \in Texts} \cup {ErrorEvent(m) : m \in Messages}
        \cup {DoneEvent}

PipelineEventLists ==
    UNION {[1..n -> PipelineEventKinds] : n \in 0..MaxPipelineEvents}

\* ------------------------------------------------------------------ state
VARIABLES
    events,     \* the events of the response body (input)
    stream,     \* the bytes of the response body (input)
    delivered,  \* number of bytes of `stream` the transport has yielded
    buffer,     \* handle_stream: `buffer`
    consumed,   \* total number of bytes `buffer.advance` has discarded
    pending,    \* handle_stream: the rest of `chunks_str` still to send
    response,   \* handle_stream: `response`
    channel,    \* the mpsc channel's queue
    senderOpen,   \* the Sender has not been dropped
    receiverOpen, \* the Receiver has not been dropped
    sink,       \* the contents written to `writer`, one entry per write_all
    flushed,    \* number of entries of `sink` followed by a successful flush
    pcMain,     \* send_message_with_stream: "reading", "sending", "joining", "returned"
    pcJob,      \* the spawned task: "receiving", "finished"
    jobError,   \* write_at_end returned Err (logged by the spawned task)
    message,    \* the value handle_stream returned
    ret,        \* the value send_message_with_stream returned
    sent,       \* history: every delta accepted by the channel, in order
    last,       \* history: the latest process_buffer call
    lines1,     \* diff engine: the lines of the old text (input)
    lines2,     \* diff engine: the lines of the new text (input)
    diffs,      \* diff engine: the outcome of from_myers_algorithm
    files,      \* the file system: per path, missing or content and mtime
    now,        \* the file system's clock (SystemTime::now)
    tracked_files, \* Chat: `tracked_files`
    messages,   \* Chat: `messages`, the messages the builder has appended
    lastRef,    \* history: the latest process_file call
    service,    \* history: per path, the file version last sent in full or as a diff
    ref,        \* process_file on a tracked path, step by step: its position and locals
    pcTurn,     \* the program: "idle", "streaming", "answered", "failed", "crashed"
    turn,       \* history: the latest send_message_with_stream call
    turns,      \* number of send_message_with_stream calls so far
    cache,      \* the cache file of the working directory: absent or its JSON
    cwd,        \* the working directory of the program
    saved,      \* history: per directory, the chat its cache file was saved from
    lastLoad    \* history: what the latest try_load_chat returned

streamVars == <<events, stream, delivered, buffer, consumed, pending, response,
                channel, senderOpen, receiverOpen, sink, flushed, pcMain,
                pcJob, jobError, message, ret, sent, last>>

diffVars == <<lines1, lines2, diffs>>

trackerVars == <<files, now, tracked_files, messages, lastRef, service, ref>>

sessionVars == <<pcTurn, turn, turns, cache, cwd, saved, lastLoad>>

vars == <<streamVars, diffVars, trackerVars, sessionVars>>

Pending == [tag |-> "Pending"]
RetOk(m) == [tag |-> "Ok", message |-> m]
RetErr(variant, msg) == [tag |-> "Err", variant |-> variant, msg |-> msg]

\* the state when the request has been answered and the channel created
\* (core.rs line 101) and handle_stream has initialised its locals
Start ==
    /\ delivered = 0
    /\ buffer = <<>>
    /\ consumed = 0
    /\ pending = <<>>
    /\ response = <<>>
    /\ channel = <<>>
    /\ senderOpen = TRUE
    /\ receiverOpen = TRUE
    /\ sink = <<>>
    /\ flushed = 0
    /\ pcMain = "reading"
    /\ pcJob = "receiving"
    /\ jobError = FALSE
    /\ message = None
    /\ ret = Pending
    /\ sent = <<>>
    /\ last = [from |-> 0, to |-> 0, res |-> OkNone]

\* the same state as the next state of a step
Restart ==
    /\ delivered' = 0
    /\ buffer' = <<>>
    /\ consumed' = 0
    /\ pending' = <<>>
    /\ response' = <<>>
    /\ channel' = <<>>
    /\ senderOpen' = TRUE
    /\ receiverOpen' = TRUE
    /\ sink' = <<>>
    /\ flushed' = 0
    /\ pcMain' = "reading"
    /\ pcJob' = "receiving"
    /\ jobError' = FALSE
    /\ message' = None
    /\ ret' = Pending
    /\ sent' = <<>>
    /\ last' = [from |-> 0, to |-> 0, res |-> OkNone]

\* the paths a message may reference
Paths == {<<"f">>, <<"g">>}

\* a path std::fs::metadata and read_to_string fail on
Missing == [exists |-> FALSE]

\* the diff engine before from_myers_algorithm is called
DiffIdle ==
    /\ lines1 = <<>>
    /\ lines2 = <<>>
    /\ diffs = None

\* Chat::new: no tracked file, no message; an empty directory
TrackerIdle ==
    /\ files = [p \in Paths |-> Missing]
    /\ now = 0
    /\ tracked_files = <<>>
    /\ messages = <<>>
    /\ lastRef = None
    /\ service = [p \in Paths |-> None]
    /\ ref = None

\* the directories the program is run in
Dirs == {<<"/", "w">>, <<"/", "v">>}

\* percent_encode(.., NON_ALPHANUMERIC): every byte that is not a letter or
\* a digit becomes %XX
RECURSIVE PercentEncode(_)
PercentEncode(bytes) ==
    IF bytes = <<>> THEN <<>>
    ELSE (IF Head(bytes) = "/" THEN <<"%", "2", "F">> ELSE <<Head(bytes)>>)
             \o PercentEncode(Tail(bytes))

\* `cache.join(format!("{}.json", encoded))`
CacheFile(dir) == PercentEncode(dir) \o <<".json">>

\* the program has started and no message has been sent; the cache
\* directory holds no file
SessionIdle ==
    /\ pcTurn = "idle"
    /\ turn = None
    /\ turns = 0
    /\ cache = [name \in {CacheFile(dir) : dir \in Dirs} |-> None]
    /\ cwd = <<"/", "w">>
    /\ saved = [dir \in Dirs |-> None]
    /\ lastLoad = None

Init ==
    /\ events \in PipelineEventLists
    /\ stream = Render(events)
    /\ Start
    /\ DiffIdle
    /\ TrackerIdle
    /\ SessionIdle

InitDecoder ==
    /\ events \in EventLists
    /\ stream = Render(events)
    /\ Start
    /\ DiffIdle
    /\ TrackerIdle
    /\ SessionIdle

\* ------------------------------------------------------------ the channel
\* (a variant without a capacity, as an unbounded channel has)
ChannelHasRoomAlways(ch) == TRUE

\* Sender::send accepts a value when the queue holds fewer than the capacity
ChannelHasRoom(ch) == Len(ch) < ChannelCapacity

\* the queue after Sender::send
ChannelSend(ch, v) == Append(ch, v)

\* (a variant that hands out the newest value instead of the oldest)
ChannelRecvNewest(ch) == ch[Len(ch)]

\* Receiver::recv: the value received and the queue it leaves
ChannelRecvValue(ch) == Head(ch)
ChannelRecvRest(ch) == Tail(ch)

\* ------------------------------------------------------------- the errors
\* ChatError::StreamError(e.to_string()), core.rs line 121
StreamError(msg) == RetErr("StreamError", msg)

\* the text of a reqwest transport error
TransportErrorText == <<"error decoding response body">>
\* the text of tokio's SendError
SendErrorText == <<"channel closed">>

\* (a variant that empties the buffer, as BytesMut::clear would)
AdvanceAll(buf, cnt) == <<>>

\* BytesMut::advance
Advance(buf, cnt) == SliceFrom(buf, cnt)

\* (a variant that puts the delta in front of the response)
PushStrFront(s, t) == t \o s

\* String::push_str
PushStr(s, t) == s \o t

\* ------------------------------------------------------------- the producer
\* handle_stream, one iteration of `while let Some(chunk) = stream.next()`
\* up to the first send: the transport yields the next n bytes, they are
\* appended to the buffer and process_buffer runs on the whole buffer.
ProducerNext(n) ==
    /\ pcMain = "reading"
    /\ n \in 0..(Len(stream) - delivered)
    /\ LET chunk == SubSeq(stream, delivered + 1, delivered + n)
           buffer1 == buffer \o chunk
       IN  \E res \in {ProcessBuffer(buffer1)} :
           /\ delivered' = delivered + n
           /\ last' = [from |-> consumed, to |-> delivered + n, res |-> res]
           /\ IF res.tag = "Err"
              THEN \* `?` on process_buffer, then map_err and `?` in core.rs
                   /\ buffer' = buffer1
                   /\ ret' = StreamError(res.msg)
                   /\ pcMain' = "returned"
                   /\ senderOpen' = FALSE
                   /\ UNCHANGED <<consumed, pending>>
              ELSE IF res.tag = "None"
              THEN /\ buffer' = buffer1
                   /\ UNCHANGED <<consumed, pending, ret, pcMain, senderOpen>>
              ELSE /\ buffer' = Advance(buffer1, res.advance)
                   /\ consumed' = consumed + res.advance
                   /\ pending' = res.chunks
                   /\ pcMain' = IF res.chunks = <<>> THEN "reading" ELSE "sending"
                   /\ UNCHANGED <<ret, senderOpen>>
    /\ UNCHANGED <<events, stream, response, channel, receiverOpen, sink,
                   flushed, pcJob, jobError, message, sent>>
    /\ UNCHANGED <<diffVars, trackerVars, sessionVars>>

\* handle_stream, the body of `for chunk_str in chunks_str`: push the delta
\* onto the response and send it; send suspends while the channel is full
\* and fails once the receiver is gone.
ProducerSend ==
    /\ pcMain = "sending"
    /\ pending # <<>>
    /\ LET chunk_str == Head(pending)
       IN  /\ response' = PushStr(response, chunk_str)
           /\ IF ~receiverOpen
              THEN /\ ret' = StreamError(SendErrorText)
                   /\ pcMain' = "returned"
                   /\ senderOpen' = FALSE
                   /\ UNCHANGED <<channel, sent, pending>>
              ELSE /\ ChannelHasRoom(channel)
                   /\ channel' = ChannelSend(channel, chunk_str)
                   /\ sent' = Append(sent, chunk_str)
                   /\ pending' = Tail(pending)
                   /\ pcMain' = IF Tail(pending) = <<>> THEN "reading" ELSE "sending"
                   /\ UNCHANGED <<ret, senderOpen>>
    /\ UNCHANGED <<events, stream, delivered, buffer, consumed, receiverOpen,
                   sink, flushed, pcJob, jobError, message, last>>
    /\ UNCHANGED <<diffVars, trackerVars, sessionVars>>

\* handle_stream: stream.next() yields None; the Message is returned and the
\* sender is dropped
ProducerStreamEnd ==
    /\ pcMain = "reading"
    /\ delivered = Len(stream)
    /\ message' = Some([role |-> "Assistant", content |-> response])
    /\ senderOpen' = FALSE
    /\ pcMain' = "joining"
    /\ UNCHANGED <<events, stream, delivered, buffer, consumed, pending,
                   response, channel, receiverOpen, sink, flushed, pcJob,
                   jobError, ret, sent, last>>
    /\ UNCHANGED <<diffVars, trackerVars, sessionVars>>

\* handle_stream: stream.next() yields Some(Err(e)); `chunk?` returns it
ProducerTransportError ==
    /\ pcMain = "reading"
    /\ ret' = StreamError(TransportErrorText)
    /\ senderOpen' = FALSE
    /\ pcMain' = "returned"
    /\ UNCHANGED <<events, stream, delivered, buffer, consumed, pending,
                   response, channel, receiverOpen, sink, flushed, pcJob,
                   jobError, message, sent, last>>
    /\ UNCHANGED <<diffVars, trackerVars, sessionVars>>

\* send_message_with_stream: `job.await?` completes, Ok(message) is returned
Join ==
    /\ pcMain = "joining"
    /\ pcJob = "finished"
    /\ ret' = RetOk(message.val)
    /\ pcMain' = "returned"
    /\ UNCHANGED <<events, stream, delivered, buffer, consumed, pending,
                   response, channel, senderOpen, receiverOpen, sink, flushed,
                   pcJob, jobError, message, sent, last>>
    /\ UNCHANGED <<diffVars, trackerVars, sessionVars>>

\* ------------------------------------------------------------- the consumer
\* write_at_end: recv yields Some(content); write_all and flush succeed
ConsumerWrite ==
    /\ pcJob = "receiving"
    /\ channel # <<>>
    /\ sink' = Append(sink, ChannelRecvValue(channel))
    /\ flushed' = Len(sink) + 1
    /\ channel' = ChannelRecvRest(channel)
    /\ UNCHANGED <<events, stream, delivered, buffer, consumed, pending,
                   response, senderOpen, receiverOpen, pcMain, pcJob, jobError,
                   message, ret, sent, last>>
    /\ UNCHANGED <<diffVars, trackerVars, sessionVars>>

\* (a variant in which the receiver outlives write_at_end's error)
ConsumerWriteFailsKeepsReceiver(written) ==
    /\ pcJob = "receiving"
    /\ channel # <<>>
    /\ sink' = IF written THEN Append(sink, ChannelRecvValue(channel)) ELSE sink
    /\ channel' = ChannelRecvRest(channel)
    /\ jobError' = TRUE
    /\ pcJob' = "finished"
    /\ UNCHANGED <<events, stream, delivered, buffer, consumed, pending,
                   response, senderOpen, receiverOpen, flushed, pcMain,
                   message, ret, sent, last>>
    /\ UNCHANGED <<diffVars, trackerVars, sessionVars>>

\* write_at_end: recv yields Some(content); write_all fails (nothing is
\* written) or flush fails (written, not flushed); `?` returns the error,
\* the spawned task logs it and ends, and the receiver is dropped with
\* whatever the queue still holds
ConsumerWriteFails(written) ==
    /\ pcJob = "receiving"
    /\ channel # <<>>
    /\ sink' = IF written THEN Append(sink, ChannelRecvValue(channel)) ELSE sink
    /\ channel' = <<>>
    /\ receiverOpen' = FALSE
    /\ jobError' = TRUE
    /\ pcJob' = "finished"
    /\ UNCHANGED <<events, stream, delivered, buffer, consumed, pending,
                   response, senderOpen, flushed, pcMain, message, ret, sent,
                   last>>
    /\ UNCHANGED <<diffVars, trackerVars, sessionVars>>

\* write_at_end: recv yields None (queue empty, sender dropped); Ok(())
ConsumerClosed ==
    /\ pcJob = "receiving"
    /\ channel = <<>>
    /\ ~senderOpen
    /\ receiverOpen' = FALSE
    /\ pcJob' = "finished"
    /\ UNCHANGED <<events, stream, delivered, buffer, consumed, pending,
                   response, channel, senderOpen, sink, flushed, pcMain,
                   jobError, message, ret, sent, last>>
    /\ UNCHANGED <<diffVars, trackerVars, sessionVars>>

Next ==
    \/ \E n \in 0..Len(stream) : ProducerNext(n)
    \/ ProducerSend
    \/ ProducerStreamEnd
    \/ ProducerTransportError
    \/ Join
    \/ ConsumerWrite
    \/ \E written \in BOOLEAN : ConsumerWriteFails(written)
    \/ ConsumerClosed

Spec == Init /\ [][Next]_vars

\* handle_stream on its own: the channel is never full and never closed
NextDecoder ==
    \/ \E n \in 0..Len(stream) : ProducerNext(n)
    \/ ProducerSend
    \/ ProducerStreamEnd

SpecDecoder == InitDecoder /\ [][NextDecoder]_vars

\* handle_stream on bodies of completion events: with a text, with the empty
\* text, with a delta without content, with a choice without delta
MaxDeltaEvents == 2

DeltaEventKinds ==
    {ContentEvent(<<"a">>), ContentEvent(<<>>), NoContentEvent, NoDeltaEvent}

InitDelta ==
    /\ events \in UNION {[1..n -> DeltaEventKinds] : n \in 0..MaxDeltaEvents}
    /\ stream = Render(events)
    /\ Start
    /\ DiffIdle
    /\ TrackerIdle
    /\ SessionIdle

SpecDelta == InitDelta /\ [][NextDecoder]_vars

TypeOK ==
    /\ delivered \in 0..Len(stream)
    /\ consumed \in 0..delivered
    /\ pcMain \in {"reading", "sending", "joining", "returned"}
    /\ pcJob \in {"receiving", "finished"}
    /\ Len(channel) <= ChannelCapacity

\* ------------------------------------------------- what the input says
\* the offset in `stream` just past the separator of event i (0 for i = 0)
EventEnd(i) == Len(Render(SubSeq(events, 1, i)))

\* the events whose bytes, separator included, lie within stream[from..to)
EventsWithin(from, to) ==
    {i \in 1..Len(events) : EventEnd(i - 1) >= from /\ EventEnd(i) <= to}

RECURSIVE Contents(_)
\* the delta contents of the content events of a list of events, in order
Contents(evs) ==
    IF evs = <<>> THEN <<>>
    ELSE IF Head(evs).kind = "content"
    THEN <<Head(evs).text>> \o Contents(Tail(evs))
    ELSE Contents(Tail(evs))

RECURSIVE Flatten(_)
\* the concatenation of a sequence of strings
Flatten(ss) ==
    IF ss = <<>> THEN <<>> ELSE Head(ss) \o Flatten(Tail(ss))

IsPrefix(s, t) == Len(s) <= Len(t) /\ SubSeq(t, 1, Len(s)) = s

RECURSIVE IsSubsequence(_, _)
\* s is t with some of its entries left out
IsSubsequence(s, t) ==
    IF s = <<>> THEN TRUE
    ELSE IF t = <<>> THEN FALSE
    ELSE IF Head(s) = Head(t) THEN IsSubsequence(Tail(s), Tail(t))
    ELSE IsSubsequence(s, Tail(t))

\* the kinds of event that end a process_buffer call
Stops(e) == e.kind \in {"done", "error", "garbage"}

\* the deltas handle_stream has decoded so far and not dropped
Decoded == sent \o pending

\* the range of events the latest process_buffer call had complete in its
\* buffer
LastEvents == EventsWithin(last.from, last.to)
LastFirst == CHOOSE i \in LastEvents : \A j \in LastEvents : i <= j
LastFinal == CHOOSE i \in LastEvents : \A j \in LastEvents : j <= i

\* ----------------------------------------------------------------- claims

\* C1: chunk-boundary independence.  However the transport cut the body
\* into chunks, when handle_stream returns its Message the deltas it has sent
\* are the deltas process_buffer yields for the whole body fed as one chunk.
OneShot == ProcessBuffer(stream)
OneShotDeltas == IF OneShot.tag = "Some" THEN OneShot.chunks ELSE <<>>

C1_ChunkBoundaryIndependence ==
    message.some => sent = OneShotDeltas

\* C4: partial retention.  The buffer always holds exactly the delivered
\* bytes that were not consumed, and the consumed offset is an event boundary,
\* so an incomplete event stays in the buffer in front of the next chunk; a
\* call on a buffer without a separator yields no delta and consumes nothing;
\* no delta is decoded from an event that is not yet complete.
C4_PartialRetention ==
    /\ buffer = Slice(stream, consumed, delivered)
    /\ \E i \in 0..Len(events) : consumed = EventEnd(i)
    /\ SeparatorPos(Slice(stream, last.from, last.to), 0) = -1
          => /\ last.res.tag = "None"
             /\ pending = <<>>
             /\ consumed = last.from
    /\ last.res.tag = "Some"
          => /\ last.res.advance <= EventEnd(LastFinal) - last.from
             /\ Len(last.res.chunks) <= Cardinality(LastEvents)
    /\ Len(Decoded) <= Cardinality({i \in EventsWithin(0, delivered) :
                                        events[i].kind = "content"})

C4_Witness ==
    /\ last.res.tag = "Some"
    /\ last.res.chunks # <<>>
    /\ buffer # <<>>
    /\ SeparatorPos(buffer, 0) = -1
    /\ last.from > 0

\* C5: in one process_buffer call, when the first event that ends the scan
\* is a complete [DONE] event, the call consumes the buffer up to the end of
\* that event and returns the deltas of the content events before it, and
\* nothing for the sentinel or for any event behind it.
C5_DoneHaltsFeed ==
    \A i \in LastEvents :
        (/\ events[i].kind = "done"
         /\ \A j \in LastEvents : j < i => ~Stops(events[j]))
        => /\ last.res.tag = "Some"
           /\ last.res.advance = EventEnd(i) - last.from
           /\ last.res.chunks = Contents(SubSeq(events, LastFirst, i - 1))

C5_Witness ==
    /\ Len(events) = 3
    /\ events[1].kind = "content"
    /\ events[2].kind = "done"
    /\ events[3].kind = "content"
    /\ last.from = 0
    /\ last.to >= EventEnd(3)
    /\ last.res = OkSome(<<events[1].text>>, EventEnd(2))

\* C6: Terminated is absorbing.  Once a [DONE] event has been consumed, the
\* deltas decoded are those of the content events before the first [DONE]
\* and stay so whatever arrives later.
C6_TerminatedAbsorbing ==
    \A i \in 1..Len(events) :
        (/\ events[i].kind = "done"
         /\ \A j \in 1..(i - 1) : events[j].kind # "done"
         /\ consumed >= EventEnd(i))
        => Decoded = Contents(SubSeq(events, 1, i - 1))

\* C7: a process_buffer call whose buffer holds n complete events, all of
\* them content events, returns exactly their n deltas in the order of the
\* events and consumes them all.
C7_OneDeltaPerEvent ==
    (/\ LastEvents # {}
     /\ \A i \in LastEvents : events[i].kind = "content")
    => last.res = OkSome([k \in 1..Cardinality(LastEvents) |->
                              events[LastFirst + k - 1].text],
                         EventEnd(LastFinal) - last.from)

C7_Witness ==
    /\ Len(events) >= 2
    /\ events[1].kind = "content"
    /\ events[2].kind = "content"
    /\ events[1].text # events[2].text
    /\ last.from = 0
    /\ last.to >= EventEnd(2)
    /\ Len(last.res.chunks) >= 2
    /\ last.res.chunks[1] = events[1].text
    /\ last.res.chunks[2] = events[2].text

\* C2: deltas reach the sink in the order they were decoded.  The writes
\* made to the sink are a prefix of the deltas sent; while the receiver lives
\* the deltas sent are exactly those written followed by those queued; and
\* the deltas sent follow the order of their events in the body.
C2_SinkOrder ==
    /\ IsPrefix(sink, sent)
    /\ receiverOpen => sent = sink \o channel
    /\ IsSubsequence(sent, Contents(events))

C2_Witness ==
    /\ Len(sink) = 2
    /\ sink[1] # sink[2]
    /\ Len(channel) = 1

C8_ProviderError ==
    \A i \in 1..Len(events) :
        (/\ events[i].kind = "error"
         /\ \A j \in 1..(i - 1) : ~Stops(events[j])
         /\ delivered >= EventEnd(i))
        => ret = StreamError(events[i].text)

C8_Witness ==
    /\ ret = StreamError(<<"X">>)
    /\ sent # <<>>
    /\ sink # <<>>

\* C9: an error of the consumer is returned to the caller: the call never
\* returns Ok after write_at_end has failed.
C9_ConsumerErrorPropagates ==
    ret.tag = "Ok" => ~jobError

\* C10: the call returns only after the consumer has finished: when it has
\* returned, with a Message or with an error, and the sink has not failed,
\* the spawned task has ended and every delta sent is written and flushed.
C10_ReturnsAfterConsumer ==
    (pcMain = "returned" /\ ~jobError)
    => /\ pcJob = "finished"
       /\ sink = sent
       /\ flushed = Len(sent)

\* ======================================================= the diff engine
\* tools/diff.rs.  A text is a sequence of symbols, "\n" ending a line; a
\* line is the sequence of the symbols between two line ends.

\* the largest number of lines of a text handed to the diff engine
MaxLines == 3

\* the lines the bounded texts are made of
DiffLines == {<<"a">>, <<"b">>}

\* str::lines: the lines of a text, each without its "\n"; the last line
\* may lack it, and nothing follows a final "\n" (the texts of the model
\* hold no carriage return)
RECURSIVE SplitLines(_, _, _)
SplitLines(text, line, acc) ==
    IF text = <<>>
    THEN IF line = <<>> THEN acc ELSE Append(acc, line)
    ELSE IF Head(text) = "\n"
    THEN SplitLines(Tail(text), <<>>, Append(acc, line))
    ELSE SplitLines(Tail(text), Append(line, Head(text)), acc)

StrLines(text) == SplitLines(text, <<>>, <<>>)

\* enum Diff: the kind, the 1-based line number and the line
Match(line_number, line) ==
    [kind |-> "Match", line_number |-> line_number, line |-> line]
Insert(line_number, line) ==
    [kind |-> "Insert", line_number |-> line_number, line |-> line]
Delete(line_number, line) ==
    [kind |-> "Delete", line_number |-> line_number, line |-> line]

\* ---------------------------------------------------------- SignedArray
\* SignedArray::new: two vectors of length + 1 entries, all -1
SignedArrayNew(length) ==
    [pos_arr |-> [i \in 1..(length + 1) |-> -1],
     neg_arr |-> [i \in 1..(length + 1) |-> -1]]

\* Vec's index operator panics unless the index is below the length
SignedArrayInBounds(arr, idx) ==
    IF idx < 0 THEN -idx < Len(arr.neg_arr) ELSE idx < Len(arr.pos_arr)

\* SignedArray::set (the vectors are 0-based, TLA+ sequences 1-based)
SignedArraySet(arr, idx, value) ==
    IF idx < 0
    THEN [arr EXCEPT !.neg_arr[-idx + 1] = value]
    ELSE [arr EXCEPT !.pos_arr[idx + 1] = value]

\* SignedArray::get
SignedArrayGet(arr, idx) ==
    IF idx < 0 THEN arr.neg_arr[-idx + 1] ELSE arr.pos_arr[idx + 1]

\* --------------------------------------------------------- LineSequence
\* HashMap<&str, usize> of from_lines, kept as the lines in the order of
\* their insertion: the line inserted when next_hash was h is entry h + 1.
\* The value stored for `line`, or -1 when the map has no such key.
RECURSIVE MapGet(_, _, _)
MapGetMiss(map, line, i) == -1

\* HashMap::get on the map of from_lines, kept in insertion order: the value
\* of the key `line`, -1 for None
MapGet(map, line, i) ==
    IF i > Len(map) THEN -1
    ELSE IF map[i] = line THEN i - 1
    ELSE MapGet(map, line, i + 1)

\* the closure of from_lines over one text: entry(line).or_insert_with(..)
RECURSIVE InternLines(_, _, _)
InternLines(lines, map, hashes) ==
    IF lines = <<>> THEN [map |-> map, hashes |-> hashes]
    ELSE LET entry == MapGet(map, Head(lines), 1)
         IN  IF entry >= 0
             THEN InternLines(Tail(lines), map, Append(hashes, entry))
             ELSE \* next_hash is the number of keys inserted so far
                  InternLines(Tail(lines), Append(map, Head(lines)),
                              Append(hashes, Len(map)))

\* LineSequence::from_lines
FromLines(l1, l2) ==
    LET first == InternLines(l1, <<>>, <<>>)
        second == InternLines(l2, first.map, <<>>)
    IN  <<[hashes |-> first.hashes, lines |-> l1],
          [hashes |-> second.hashes, lines |-> l2]>>

\* LineSequence::len
SeqLen(seq) == Len(seq.hashes)

\* ------------------------------------------------- from_myers_algorithm
\* an index out of bounds, or a subtraction below zero, ends the call
Panic == [tag |-> "Panic"]

\* `as usize` of an i32 and `as i32` of a usize wrap.  usize is wider than
\* the integers of the model checker, so the wrap is taken modulo a power of
\* two far above every length of the model: a negative i32 still becomes a
\* usize above every length and comes back as the same i32.
UsizeWrap == 2 ^ 30
AsUsize(i) == IF i < 0 THEN i + UsizeWrap ELSE i
AsI32(u) == IF u >= UsizeWrap \div 2 THEN u - UsizeWrap ELSE u

\* the reads of `k == -d || (k != d && v.get(k - 1) < v.get(k + 1))`
\* stay within the vectors
BranchInBounds(v, k, d) ==
    \/ k = -d
    \/ k = d
    \/ SignedArrayInBounds(v, k - 1) /\ SignedArrayInBounds(v, k + 1)

\* (a variant that takes the insertion on the main diagonal when the two
\* values are equal)
TakesInsertionOnTies(v, k, d) ==
    \/ k = -d
    \/ /\ k # d
       /\ \/ SignedArrayGet(v, k - 1) < SignedArrayGet(v, k + 1)
          \/ /\ SignedArrayGet(v, k - 1) = SignedArrayGet(v, k + 1)
             /\ k = 0

\* `k == -d || (k != d && v.get(k - 1) < v.get(k + 1))`
TakesInsertion(v, k, d) ==
    k = -d \/ (k # d /\ SignedArrayGet(v, k - 1) < SignedArrayGet(v, k + 1))

\* `while x < x_axis_len && y < y_axis_len && seq1[x] == seq2[y]`: the x
\* the snake ends at
RECURSIVE Snake(_, _, _, _)
Snake(seq1, seq2, x, y) ==
    IF x < SeqLen(seq1) /\ y < SeqLen(seq2)
       /\ seq1.hashes[x + 1] = seq2.hashes[y + 1]
    THEN Snake(seq1, seq2, x + 1, y + 1)
    ELSE x

\* `if x >= x_axis_len && y >= y_axis_len`
CornerReached(seq1, seq2, x, y) == x >= SeqLen(seq1) /\ y >= SeqLen(seq2)

\* the forward search: ForwardD is `'outer: for d in 0..=max`, ForwardK is
\* `for k in (-d..=d).step_by(2)`
RECURSIVE ForwardD(_, _, _, _, _, _)
RECURSIVE ForwardK(_, _, _, _, _, _, _, _)
ForwardD(seq1, seq2, max, d, v, trace) ==
    IF d > max
    THEN [tag |-> "Ok", final_d |-> 0, trace |-> trace]
    ELSE ForwardK(seq1, seq2, max, d, -d, v, SignedArrayNew(max), trace)

ForwardK(seq1, seq2, max, d, k, v, v_current, trace) ==
    IF k > d
    THEN ForwardD(seq1, seq2, max, d + 1, v_current, Append(trace, v_current))
    ELSE IF ~BranchInBounds(v, k, d) THEN Panic
    ELSE LET from_k == IF TakesInsertion(v, k, d) THEN k + 1 ELSE k - 1
         IN  IF ~SignedArrayInBounds(v, from_k) THEN Panic
             ELSE LET x_start == IF from_k = k + 1
                                 THEN SignedArrayGet(v, k + 1)
                                 ELSE SignedArrayGet(v, k - 1) + 1
                      y_start == x_start - k
                      x == Snake(seq1, seq2, AsUsize(x_start), AsUsize(y_start))
                      y == AsUsize(y_start) + (x - AsUsize(x_start))
                  IN  IF ~SignedArrayInBounds(v_current, k) THEN Panic
                      ELSE IF CornerReached(seq1, seq2, x, y)
                      THEN [tag |-> "Ok", final_d |-> d, trace |-> trace]
                      ELSE ForwardK(seq1, seq2, max, d, k + 2, v,
                                    SignedArraySet(v_current, k, AsI32(x)),
                                    trace)

\* `while x > prev_x && y > prev_y`: one Match per line of the snake
RECURSIVE EmitMatches(_, _, _, _, _, _)
EmitMatches(seq1, x, y, prev_x, prev_y, edits) ==
    IF x > prev_x /\ y > prev_y
    THEN IF x < 1 \/ x > Len(seq1.lines) THEN Panic
         ELSE EmitMatches(seq1, x - 1, y - 1, prev_x, prev_y,
                          Append(edits, Match(x, seq1.lines[x])))
    ELSE [tag |-> "Ok", x |-> x, y |-> y, edits |-> edits]

\* (a variant that numbers an inserted line from 0)
InsertStepZeroBased(seq2, y) == Insert(y - 1, seq2.lines[y])

\* `edits.push(Diff::Insert((y, seq2.lines[y - 1].to_string())))`
InsertStep(seq2, y) == Insert(y, seq2.lines[y])

\* `edits.push(Diff::Delete((x, seq1.lines[x - 1].to_string())))`
DeleteStep(seq1, x) == Delete(x, seq1.lines[x])

\* Vec::reverse
RECURSIVE Reverse(_)
Reverse(s) == IF s = <<>> THEN <<>> ELSE Append(Reverse(Tail(s)), Head(s))

\* the backtracking: `for d in (0..final_d).rev()`, then edits.reverse()
RECURSIVE Backtrack(_, _, _, _, _, _, _)
Backtrack(seq1, seq2, trace, d, x, y, edits) ==
    IF d < 0 THEN [tag |-> "Ok", diffs |-> Reverse(edits)]
    ELSE IF d + 1 > Len(trace) THEN Panic
    ELSE LET v == trace[d + 1]
             k == x - y
         IN  IF ~BranchInBounds(v, k, d) THEN Panic
             ELSE LET prev_k == IF TakesInsertion(v, k, d) THEN k + 1 ELSE k - 1
                  IN  IF ~SignedArrayInBounds(v, prev_k) THEN Panic
                      ELSE LET prev_x == AsUsize(SignedArrayGet(v, prev_k))
                               prev_y == AsUsize(AsI32(prev_x) - prev_k)
                               m == EmitMatches(seq1, x, y, prev_x, prev_y, edits)
                           IN  IF m.tag = "Panic" THEN Panic
                               ELSE IF m.x = prev_x
                               THEN IF m.y < 1 \/ m.y > Len(seq2.lines) THEN Panic
                                    ELSE Backtrack(seq1, seq2, trace, d - 1, m.x, m.y - 1,
                                                   Append(m.edits, InsertStep(seq2, m.y)))
                               ELSE IF m.x < 1 \/ m.x > Len(seq1.lines) THEN Panic
                                    ELSE Backtrack(seq1, seq2, trace, d - 1, m.x - 1, m.y,
                                                   Append(m.edits, DeleteStep(seq1, m.x)))

\* DiffsManager::from_myers_algorithm: Panic, or the edits together with
\* the final_d the forward search stopped at
FromMyersAlgorithm(seq1, seq2) ==
    LET max == SeqLen(seq1) + SeqLen(seq2)
        v == SignedArrayNew(max)
    IN  IF ~SignedArrayInBounds(v, 1) THEN Panic
        ELSE LET fwd == ForwardD(seq1, seq2, max, 0, SignedArraySet(v, 1, 0), <<>>)
             IN  IF fwd.tag = "Panic" THEN Panic
                 ELSE LET back == Backtrack(seq1, seq2, fwd.trace, fwd.final_d - 1,
                                            SeqLen(seq1), SeqLen(seq2), <<>>)
                      IN  IF back.tag = "Panic" THEN Panic
                          ELSE [tag |-> "Ok", diffs |-> back.diffs,
                                final_d |-> fwd.final_d]

\* ------------------------------------------------------------ the inputs
\* the two texts of tests::test_myers
TestStr1 ==
    <<"hello, this is a test", "\n", "and this is a Myers' Algorithm", "\n",
      "hello world", "\n", "Bye world", "\n">>
TestStr2 ==
    <<"bye, this is a test", "\n", "and this is a Myers' Algorithm", "\n",
      "hello earth", "\n", "bye world", "\n", "additional line", "\n">>

\* every list of at most MaxLines lines
LineLists == UNION {[1..n -> DiffLines] : n \in 0..MaxLines}

\* the pairs of line lists the engine is run on
DiffInputs ==
    (LineLists \X LineLists) \cup {<<StrLines(TestStr1), StrLines(TestStr2)>>}

InitDiff ==
    /\ events = <<>>
    /\ stream = <<>>
    /\ Start
    /\ TrackerIdle
    /\ SessionIdle
    /\ \E input \in DiffInputs : lines1 = input[1] /\ lines2 = input[2]
    /\ diffs = None

\* tests::test_myers and get_diffs: from_lines, then from_myers_algorithm
RunDiff ==
    /\ diffs = None
    /\ LET seqs == FromLines(lines1, lines2)
       IN  diffs' = Some(FromMyersAlgorithm(seqs[1], seqs[2]))
    /\ UNCHANGED <<lines1, lines2, streamVars, trackerVars, sessionVars>>

NextDiff == RunDiff

SpecDiff == InitDiff /\ [][NextDiff]_vars

\* -------------------------------------------- the claims on the diff engine
\* from_myers_algorithm has returned an edit script
Returned == diffs # None /\ diffs.val.tag = "Ok"

\* the lines of the entries of the given kinds, in script order
RECURSIVE LinesOf(_, _)
LinesOf(script, kinds) ==
    IF script = <<>> THEN <<>>
    ELSE IF Head(script).kind \in kinds
    THEN <<Head(script).line>> \o LinesOf(Tail(script), kinds)
    ELSE LinesOf(Tail(script), kinds)

\* the number of entries of the given kinds
RECURSIVE CountOf(_, _)
CountOf(script, kinds) ==
    IF script = <<>> THEN 0
    ELSE (IF Head(script).kind \in kinds THEN 1 ELSE 0)
         + CountOf(Tail(script), kinds)

\* the length of a longest common subsequence
RECURSIVE LCS(_, _)
LCS(a, b) ==
    IF a = <<>> \/ b = <<>> THEN 0
    ELSE IF Head(a) = Head(b) THEN 1 + LCS(Tail(a), Tail(b))
    ELSE LET skipA == LCS(Tail(a), b)
             skipB == LCS(a, Tail(b))
         IN  IF skipA >= skipB THEN skipA ELSE skipB

EditDistance == Len(lines1) + Len(lines2) - 2 * LCS(lines1, lines2)

\* C11: whenever an edit script is returned, the lines of its Match and
\* Delete entries, in script order, are the lines of old, and the lines of
\* its Match and Insert entries are the lines of new (the calls that end in
\* a panic are the matter of C15).
C11_ScriptTransforms ==
    Returned =>
        /\ LinesOf(diffs.val.diffs, {"Match", "Delete"}) = lines1
        /\ LinesOf(diffs.val.diffs, {"Match", "Insert"}) = lines2

\* C12: for every pair of line sequences an edit script is returned whose
\* Insert and Delete entries number len(old) + len(new) - 2 * LCS(old, new),
\* and the forward search stopped at that d.
C12_ScriptMinimal ==
    diffs # None =>
        /\ diffs.val.tag = "Ok"
        /\ CountOf(diffs.val.diffs, {"Insert", "Delete"}) = EditDistance
        /\ diffs.val.final_d = EditDistance

\* C13: the edit script of two identical texts of n lines is
\* Match(1, l1) ... Match(n, ln).
C13_DiffIdentity ==
    (Returned /\ lines1 = lines2) =>
        diffs.val.diffs = [i \in 1..Len(lines1) |-> Match(i, lines1[i])]

\* the edit script tests::test_myers expects
TestExpected ==
    <<Delete(1, <<"hello, this is a test">>),
      Insert(1, <<"bye, this is a test">>),
      Match(2, <<"and this is a Myers' Algorithm">>),
      Delete(3, <<"hello world">>),
      Delete(4, <<"Bye world">>),
      Insert(3, <<"hello earth">>),
      Insert(4, <<"bye world">>),
      Insert(5, <<"additional line">>)>>

\* the engine has run on the two texts of tests::test_myers
C14_Witness ==
    /\ diffs # None
    /\ lines1 = StrLines(TestStr1)
    /\ lines2 = StrLines(TestStr2)
    /\ Len(lines1) = 4
    /\ Len(lines2) = 5

\* C14: on the two texts of tests::test_myers the edit script is Delete(1),
\* Insert(1), Match(2), Delete(3), Delete(4), Insert(3), Insert(4),
\* Insert(5) with the lines of the texts: numbers are 1-based, of old for
\* Match and Delete, of new for Insert.
C14_TestMyers ==
    (diffs # None /\ lines1 = StrLines(TestStr1) /\ lines2 = StrLines(TestStr2))
        => (diffs.val.tag = "Ok" /\ diffs.val.diffs = TestExpected)

\* C15: from_lines and from_myers_algorithm return a script for every pair
\* of line sequences: only Inserts when old is empty, only Deletes when new
\* is empty, no entry when both are.
C15_DiffTotal ==
    diffs # None =>
        /\ diffs.val.tag = "Ok"
        /\ (lines1 = <<>> =>
               CountOf(diffs.val.diffs, {"Insert"}) = Len(diffs.val.diffs))
        /\ (lines2 = <<>> =>
               CountOf(diffs.val.diffs, {"Delete"}) = Len(diffs.val.diffs))

\* ==================================================== the change tracker
\* Chat::process_file (chat/core.rs) over FileReader and TrackedFile
\* (tools/files.rs) and Readable and ReaderTool (tools/reader.rs).

\* the largest value of the clock: every write of a file advances it
MaxClock == 2
\* the largest number of messages the builder holds when a file is referenced
MaxMessages == 3

\* the contents a file is written with: empty, one line, two lines
FileContents == {<<>>, <<"a", "\n">>, <<"a", "\n", "b", "\n">>}

\* the file arguments of a message: a path, a path with the range 1-2, a
\* path with a range without end
FileArgs ==
    {<<"f">>, <<"f", ":", "1", "-", "2">>, <<"f", ":", "2", "-">>, <<"g">>}

\* a path std::fs::metadata and read_to_string succeed on
Present(content, modified) ==
    [exists |-> TRUE, content |-> content, modified |-> modified]

\* ------------------------------------------------------ text conversions
\* str::split_once: the parts before and after the first `sep`, if any
RECURSIVE FindSymbol(_, _, _)
FindSymbol(s, sep, i) ==
    IF i > Len(s) THEN 0
    ELSE IF s[i] = sep THEN i
    ELSE FindSymbol(s, sep, i + 1)

SplitOnce(s, sep) ==
    LET i == FindSymbol(s, sep, 1)
    IN  IF i = 0 THEN None
        ELSE Some(<<SubSeq(s, 1, i - 1), SubSeq(s, i + 1, Len(s))>>)

Digits == <<"0", "1", "2", "3", "4", "5", "6", "7", "8", "9">>

\* str::parse::<usize> on the numbers of the model, which have one digit:
\* anything else (the empty string among it) is an error
ParseUsize(s) ==
    IF Len(s) = 1 /\ \E n \in 0..9 : Digits[n + 1] = s[1]
    THEN Some(CHOOSE n \in 0..9 : Digits[n + 1] = s[1])
    ELSE None

\* Option::unwrap_or (Result::unwrap_or)
UnwrapOr(opt, default) == IF opt.some THEN opt.val ELSE default

\* the Display of a usize below ten
FormatUsize(n) == <<Digits[n + 1]>>

\* Range::from_file_arg
RangeFromFileArg(arg) ==
    LET colon == SplitOnce(arg, ":")
    IN  IF ~colon.some THEN None
        ELSE LET dash == SplitOnce(colon.val[2], "-")
             IN  IF ~dash.some THEN None
                 ELSE Some([start |-> UnwrapOr(ParseUsize(dash.val[1]), 1),
                            end |-> UnwrapOr(ParseUsize(dash.val[2]), 0)])

\* Display for Range
RangeToString(range) ==
    <<":">> \o FormatUsize(range.start) \o <<"-">> \o FormatUsize(range.end)

\* process_file and TrackedFile::from_file_arg: the argument without range
FilePath(file) ==
    LET colon == SplitOnce(file, ":")
    IN  IF colon.some THEN colon.val[1] ELSE file

\* Display for Diff
DiffToString(diff) ==
    IF diff.kind = "Match"
    THEN FormatUsize(diff.line_number) \o <<" ">> \o diff.line
    ELSE IF diff.kind = "Insert"
    THEN <<"+ ">> \o FormatUsize(diff.line_number) \o <<" ">> \o diff.line
    ELSE <<"- ">> \o FormatUsize(diff.line_number) \o <<" ">> \o diff.line

\* (a variant that numbers the lines from 0)
RECURSIVE NumberLinesFromZero(_, _)
NumberLinesFromZero(lines, i) ==
    IF i >= Len(lines) THEN <<>>
    ELSE FormatUsize(i) \o <<": ">> \o lines[i + 1] \o <<"\n">>
         \o NumberLinesFromZero(lines, i + 1)

\* the loop of add_line_numbers over lines().enumerate(), from index i on
RECURSIVE NumberLines(_, _)
NumberLines(lines, i) ==
    IF i >= Len(lines) THEN <<>>
    ELSE FormatUsize(i + 1) \o <<": ">> \o lines[i + 1] \o <<"\n">>
         \o NumberLines(lines, i + 1)

\* Readable::add_line_numbers
AddLineNumbers(content) == NumberLines(StrLines(content), 0)

\* TrackedFile::prepare_load_once
PrepareLoadOnce(tracked_file) ==
    <<"File: ">> \o tracked_file.path \o <<" [load-once]\n\n">>
    \o AddLineNumbers(tracked_file.content)

\* (a variant that keeps the end of a range that has none)
PrepareForCopilotKeepsEnd(tracked_file, range) ==
    <<"File: ">> \o tracked_file.path \o RangeToString(range)

\* TrackedFile::prepare_for_copilot
PrepareForCopilot(tracked_file, range) ==
    LET range_str == RangeToString(range)
        cut == IF range.end = 0
               THEN UnwrapOr(SplitOnce(range_str, "-"), <<range_str, <<>>>>)[1]
               ELSE range_str
    IN  <<"File: ">> \o tracked_file.path \o cut

\* the marker process_file appends for `range.as_ref()` (core.rs lines 252
\* and 281; prepare_for_copilot of tools/files.rs takes a Range): of the
\* range when the argument has one, of the path alone when it has none
ReferenceMarker(tracked_file, range) ==
    IF range.some
    THEN PrepareForCopilot(tracked_file, range.val)
    ELSE <<"File: ">> \o tracked_file.path

\* Message { role: Role::User, content }
UserMessage(content) == [role |-> "User", content |-> content]

\* the content of the message Builder::with_diffs builds
RECURSIVE DiffsContent(_)
DiffsContent(script) ==
    IF script = <<>> THEN <<>>
    ELSE DiffToString(Head(script)) \o DiffsContent(Tail(script))

\* (a variant without the test for an empty script)
WithDiffsAlways(diff_man, filename) ==
    <<UserMessage(<<"Here the updates of the file ">> \o filename
                  \o <<":\n\n">> \o DiffsContent(diff_man.diffs))>>

\* Builder::with_diffs: the messages it appends
WithDiffs(diff_man, filename) ==
    IF diff_man.diffs = <<>> THEN <<>>
    ELSE <<UserMessage(<<"Here the updates of the file ">> \o filename
                       \o <<":\n\n">> \o DiffsContent(diff_man.diffs))>>

\* ------------------------------------------------------------ the reader
\* the text of the io::Error of a missing file
NotFoundText == <<"No such file or directory (os error 2)">>

\* ChatError::ToolError(e.to_string())
ToolError(msg) == RetErr("ToolError", msg)

\* the value of Ok(())
OkUnit == [tag |-> "Ok"]

\* TrackedFile::from_file_arg
TrackedFileFromFileArg(file) ==
    LET path == FilePath(file)
    IN  [path |-> path,
         content |-> <<>>,
         last_modification |->
             IF files[path].exists THEN files[path].modified ELSE now]

\* ReaderTool::update_modified_time, called at files.rs line 68; the trait
\* method itself is not in tools/reader.rs.  By its call it sets the
\* modification time of the metadata or returns the error of
\* std::fs::metadata.
UpdateModifiedTime(readable) ==
    IF files[readable.path].exists
    THEN Some([readable EXCEPT !.last_modification = files[readable.path].modified])
    ELSE None

\* FileReader::read: never fails; a file that cannot be read gives the
\* empty content and the present time
Read(readable) ==
    LET content == IF files[readable.path].exists
                   THEN files[readable.path].content
                   ELSE <<>>
        with_content == [readable EXCEPT !.content = content]
        updated == UpdateModifiedTime(with_content)
    IN  IF updated.some THEN updated.val
        ELSE [with_content EXCEPT !.last_modification = now]

\* (a variant that takes equal times for a modification)
UpToDateStrict(readable, modified) == readable.last_modification > modified

\* `*readable.modified_time() >= meta.modified()?`
UpToDate(readable, modified) == readable.last_modification >= modified

\* ReaderTool::get_diffs as process_file uses it, returning
\* Result<Option<DiffsManager>>.  tools/reader.rs holds an earlier revision
\* (lines 50-64) with the same steps, which returns no edit: the error of
\* metadata or read_to_string, nothing when the file is not newer than the
\* readable, the edit script from the readable's content to the file's
\* otherwise.
GetDiffs(readable) ==
    IF ~files[readable.path].exists THEN Err(NotFoundText)
    ELSE IF UpToDate(readable, files[readable.path].modified)
    THEN [tag |-> "Ok", val |-> None]
    ELSE LET seqs == FromLines(StrLines(readable.content),
                               StrLines(files[readable.path].content))
             diff_man == FromMyersAlgorithm(seqs[1], seqs[2])
         IN  IF diff_man.tag = "Panic" THEN Panic
             ELSE [tag |-> "Ok", val |-> Some(diff_man)]

\* ------------------------------------------------------------ the tracker
\* `tracked_files.iter().position(|p| p.path == file_path)`, 0 for None
RECURSIVE Position(_, _, _)
Position(tracked, file_path, i) ==
    IF i > Len(tracked) THEN 0
    ELSE IF tracked[i].path = file_path THEN i
    ELSE Position(tracked, file_path, i + 1)

\* Vec::remove
Remove(v, index) == SubSeq(v, 1, index - 1) \o SubSeq(v, index + 1, Len(v))

\* Vec::insert
InsertAt(v, index, e) ==
    SubSeq(v, 1, index - 1) \o <<e>> \o SubSeq(v, index, Len(v))

\* process_file on a tracked path (core.rs lines 222-261): what it leaves
\* in tracked_files, what it appends to the messages, what it returns
ProcessTracked(tracked, file, index) ==
    LET range == RangeFromFileArg(file)
        removed == Remove(tracked, index)
        taken == tracked[index]
        tracked_file == IF taken.content = <<>> THEN Read(taken) ELSE taken
        diff_man == GetDiffs(tracked_file)
    IN  IF diff_man.tag = "Err"
        THEN [tracked |-> removed, appended |-> <<>>,
              ret |-> ToolError(diff_man.msg), sent |-> FALSE]
        ELSE IF diff_man.tag = "Panic"
        THEN [tracked |-> removed, appended |-> <<>>, ret |-> Panic,
              sent |-> FALSE]
        ELSE LET current == Read(tracked_file)
                 block == IF diff_man.val.some
                          THEN WithDiffs(diff_man.val.val, current.path)
                          ELSE <<>>
             IN  [tracked |-> InsertAt(removed, index, current),
                  appended |-> block
                               \o <<UserMessage(ReferenceMarker(current, range))>>,
                  ret |-> OkUnit,
                  sent |-> block # <<>>]

\* process_file on a path that is not tracked (core.rs lines 262-291)
ProcessUntracked(tracked, file) ==
    LET range == RangeFromFileArg(file)
        tracked_file == Read(TrackedFileFromFileArg(file))
    IN  [tracked |-> Append(tracked, tracked_file),
         appended |-> <<UserMessage(PrepareLoadOnce(tracked_file)),
                        UserMessage(ReferenceMarker(tracked_file, range))>>,
         ret |-> OkUnit,
         sent |-> TRUE]

\* the content read from a path: empty when the path cannot be read
ContentOf(on_disk) == IF on_disk.exists THEN on_disk.content ELSE <<>>

\* the file at `path` holds the content the service was last sent for it
SameAsSent(path) ==
    /\ service[path].some
    /\ files[path].exists
    /\ files[path].content = ContentOf(service[path].val)

\* a panic of the diff engine has ended the program
Crashed == lastRef.some /\ lastRef.val.ret = Panic

\* Chat::process_file
\* process_file on a session that holds fewer than `bound` messages
ProcessFileWithin(file, bound) ==
    /\ ~Crashed
    /\ Len(messages) < bound
    /\ LET path == FilePath(file)
           index == Position(tracked_files, path, 1)
       IN  \E res \in {IF index > 0
                       THEN ProcessTracked(tracked_files, file, index)
                       ELSE ProcessUntracked(tracked_files, file)} :
           /\ tracked_files' = res.tracked
           /\ messages' = messages \o res.appended
           /\ lastRef' = Some([file |-> file,
                               tracked |-> tracked_files,
                               on_disk |-> files[path],
                               from |-> Len(messages),
                               ret |-> res.ret])
           /\ service' = IF res.sent \/ SameAsSent(path)
                         THEN [service EXCEPT ![path] = Some(files[path])]
                         ELSE service
    /\ UNCHANGED <<files, now, ref, streamVars, diffVars, sessionVars>>

ProcessFile(file) == ProcessFileWithin(file, MaxMessages)

\* another program writes a file: the clock advances and the file's
\* modification time is the new time
WriteFile(path, content) ==
    /\ now < MaxClock
    /\ now' = now + 1
    /\ files' = [files EXCEPT ![path] = Present(content, now + 1)]
    /\ UNCHANGED <<tracked_files, messages, lastRef, service, ref, streamVars,
                   diffVars, sessionVars>>

\* another program removes a file
RemoveFile(path) ==
    /\ files[path].exists
    /\ files' = [files EXCEPT ![path] = Missing]
    /\ UNCHANGED <<now, tracked_files, messages, lastRef, service, ref,
                   streamVars, diffVars, sessionVars>>

InitTracker ==
    /\ events = <<>>
    /\ stream = <<>>
    /\ Start
    /\ DiffIdle
    /\ TrackerIdle
    /\ SessionIdle

NextTracker ==
    \/ \E file \in FileArgs : ProcessFile(file)
    \/ \E path \in Paths, content \in FileContents : WriteFile(path, content)
    \/ \E path \in Paths : RemoveFile(path)

SpecTracker == InitTracker /\ [][NextTracker]_vars

\* ------------------------------------------- sessions of three references
\* the largest number of messages of a session when a file is referenced in
\* SpecFrame: enough for a third reference after two first references
MaxFrameMessages == 5

NextFrame ==
    \/ \E file \in Paths : ProcessFileWithin(file, MaxFrameMessages)
    \/ \E path \in Paths, content \in FileContents : WriteFile(path, content)
    \/ \E path \in Paths : RemoveFile(path)

SpecFrame == InitTracker /\ [][NextFrame]_vars

\* ------------------------------------------------ files of other lines
\* the contents a file is written with where the edit script from one to
\* another holds more than one edit
BlockContents == {<<"a", "\n">>, <<"b", "\n">>, <<"b", "\n", "a", "\n">>}

NextBlock ==
    \/ \E file \in Paths : ProcessFile(file)
    \/ \E path \in Paths, content \in BlockContents : WriteFile(path, content)

SpecBlock == InitTracker /\ [][NextBlock]_vars

\* ------------------------------------------ the ranges of file arguments
\* the arguments of one path: without range, with start and end, with a
\* start alone, with a start and a dash
RangeArgs ==
    {<<"f">>, <<"f", ":", "1", "-", "2">>, <<"f", ":", "2">>,
     <<"f", ":", "2", "-">>}

NextRange ==
    \/ \E file \in RangeArgs : ProcessFile(file)
    \/ \E content \in FileContents : WriteFile(<<"f">>, content)
    \/ RemoveFile(<<"f">>)

SpecRange == InitTracker /\ [][NextRange]_vars

\* ------------------------------------------------------------ the session
\* the largest number of send_message_with_stream calls
MaxTurns == 2

\* prompts.rs
GENERAL == <<"You are an expert software engineer.">>
CODE == <<"You are an expert systems developer.">>
COMMIT == <<"Write a commit message using the Commitizen convention.">>
GIT == <<"You are a Git power user.">>

\* MessageType: Code { user_prompt, files }, Commit(user_prompt) and
\* Git(user_prompt), the latter two without files
MessageType(kind, user_prompt, file_args) ==
    [kind |-> kind, user_prompt |-> user_prompt, files |-> file_args]

\* impl Display for MessageType
MessageTypeToString(message_type) ==
    CASE message_type.kind = "Code" -> CODE
      [] message_type.kind = "Commit" -> COMMIT
      [] message_type.kind = "Git" -> GIT

\* MessageType::resolve_user_prompt
ResolveUserPrompt(message_type) ==
    IF message_type.user_prompt.some
    THEN Some(UserMessage(message_type.user_prompt.val))
    ELSE None

\* (a variant that appends the user prompt before the message)
PrepareBuilderPromptFirst(msgs, msg, message_type) ==
    LET prompts == IF msgs = <<>>
                   THEN <<UserMessage(GENERAL),
                          UserMessage(MessageTypeToString(message_type))>>
                   ELSE <<>>
        user_message == ResolveUserPrompt(message_type)
    IN  msgs \o prompts
            \o (IF user_message.some THEN <<user_message.val>> ELSE <<>>)
            \o <<msg>>

\* prepare_builder: the message list it leaves in the chat
PrepareBuilder(msgs, msg, message_type) ==
    LET prompts == IF msgs = <<>>
                   THEN <<UserMessage(GENERAL),
                          UserMessage(MessageTypeToString(message_type))>>
                   ELSE <<>>
        user_message == ResolveUserPrompt(message_type)
    IN  msgs \o prompts \o <<msg>>
            \o (IF user_message.some THEN <<user_message.val>> ELSE <<>>)

\* process_file: the branch of the path's position in the tracked files
\* (core.rs line 222)
ProcessOne(tracked, file) ==
    IF Position(tracked, FilePath(file), 1) > 0
    THEN ProcessTracked(tracked, file, Position(tracked, FilePath(file), 1))
    ELSE ProcessUntracked(tracked, file)

\* the loop of handle_files after process_file has returned `one` for
\* `file`: the files processed, the messages appended, the paths whose
\* content the service now holds, the result so far
AfterFile(acc, file, one) ==
    [file |-> Some(file),
     before |-> acc.res.tracked,
     from |-> Len(acc.res.appended),
     done |-> acc.done + 1,
     told |-> IF one.sent \/ SameAsSent(FilePath(file))
              THEN acc.told \cup {FilePath(file)}
              ELSE acc.told,
     res |-> [tracked |-> one.tracked,
              appended |-> acc.res.appended \o one.appended,
              ret |-> one.ret,
              sent |-> one.sent]]

RECURSIVE HandleFilesLoop(_, _)
\* handle_files: `for file in files { process_file(..).await?; }` (core.rs
\* lines 198-203), ended by the first error
HandleFilesLoop(file_args, acc) ==
    IF file_args = <<>> \/ acc.res.ret # OkUnit THEN acc
    ELSE HandleFilesLoop(Tail(file_args),
                         AfterFile(acc, Head(file_args),
                                   ProcessOne(acc.res.tracked, Head(file_args))))

\* Chat::handle_files
HandleFiles(message_type) ==
    HandleFilesLoop(IF message_type.kind = "Code" /\ message_type.files.some
                    THEN message_type.files.val
                    ELSE <<>>,
                    [file |-> None, before |-> tracked_files, from |-> 0,
                     done |-> 0, told |-> {},
                     res |-> [tracked |-> tracked_files, appended |-> <<>>,
                              ret |-> OkUnit, sent |-> FALSE]])

\* the message types of the turns: with and without a user prompt, with
\* and without a file
MessageTypes ==
    {MessageType("Code", p, fs) : p \in {None, Some(<<"I am an user">>)},
                                  fs \in {None, Some(<<<<"f">>>>)}}
        \cup {MessageType("Commit", Some(<<"I am an user">>), None),
              MessageType("Git", None, None)}

\* send_message_with_stream up to the creation of the channel (core.rs
\* lines 91-101): prepare_builder, handle_files, the request.  `answered`
\* tells whether the service answers the request with a response body.
SendMessageWithStream(msg, message_type, answered) ==
    /\ pcTurn \in {"idle", "answered"}
    /\ turns < MaxTurns
    /\ turns' = turns + 1
    /\ LET prepared == PrepareBuilder(messages, msg, message_type)
       IN  \E loop \in {HandleFiles(message_type)} :
           \E file \in {loop.file}, handled \in {loop.res} :
           /\ tracked_files' = handled.tracked
           /\ messages' = prepared \o handled.appended
           /\ lastRef' = IF file.some
                         THEN Some([file |-> file.val,
                                    tracked |-> loop.before,
                                    on_disk |-> files[FilePath(file.val)],
                                    from |-> Len(prepared) + loop.from,
                                    ret |-> handled.ret])
                         ELSE lastRef
           /\ service' = [path \in DOMAIN service |->
                              IF path \in loop.told THEN Some(files[path])
                              ELSE service[path]]
           /\ turn' = Some([message |-> msg,
                            message_type |-> message_type,
                            messages |-> messages,
                            tracked_files |-> tracked_files,
                            processed |-> loop.done,
                            request |-> IF handled.ret = OkUnit
                                        THEN Some(prepared \o handled.appended)
                                        ELSE None])
           /\ IF handled.ret = Panic
              THEN /\ pcTurn' = "crashed"
                   /\ UNCHANGED streamVars
              ELSE IF handled.ret # OkUnit
              THEN /\ pcTurn' = "failed"
                   /\ ret' = handled.ret
                   /\ UNCHANGED <<events, stream, delivered, buffer, consumed,
                                  pending, response, channel, senderOpen,
                                  receiverOpen, sink, flushed, pcMain, pcJob,
                                  jobError, message, sent, last>>
              ELSE IF ~answered
              THEN /\ pcTurn' = "failed"
                   /\ ret' = RetErr("ProviderError", <<"error sending request">>)
                   /\ UNCHANGED <<events, stream, delivered, buffer, consumed,
                                  pending, response, channel, senderOpen,
                                  receiverOpen, sink, flushed, pcMain, pcJob,
                                  jobError, message, sent, last>>
              ELSE /\ pcTurn' = "streaming"
                   /\ Restart
                   /\ UNCHANGED <<events, stream>>
    /\ lastLoad' = None
    /\ UNCHANGED <<files, now, ref, diffVars, cache, cwd, saved>>

\* send_message_with_stream has returned to main: `?` ends the program on
\* an error, add_message appends the response otherwise (main.rs 142-150)
TurnReturns ==
    /\ pcTurn = "streaming"
    /\ pcMain = "returned"
    /\ IF ret.tag = "Ok"
       THEN /\ messages' = Append(messages, ret.message)
            /\ pcTurn' = "answered"
       ELSE /\ pcTurn' = "failed"
            /\ UNCHANGED messages
    /\ UNCHANGED <<streamVars, diffVars, files, now, tracked_files, lastRef,
                   service, ref, turn, turns, cache, cwd, saved, lastLoad>>

\* ------------------------------------------------------------ persistence
\* the serde names of Role (`#[serde(rename = ..)]`)
RoleToJson(role) ==
    CASE role = "System" -> "system"
      [] role = "User" -> "user"

\* (a variant that reads every role as User)
RoleFromJsonUser(name) == "User"

RoleFromJson(name) ==
    CASE name = "system" -> "System"
      [] name = "user" -> "User"

\* serde_json::to_string(self): `provider` is skipped, and so is the
\* `content` of a TrackedFile
ChatToJson(msgs, tracked) ==
    [messages |-> [i \in 1..Len(msgs) |->
                       [role |-> RoleToJson(msgs[i].role),
                        content |-> msgs[i].content]],
     tracked_files |-> [i \in 1..Len(tracked) |->
                            [path |-> tracked[i].path,
                             last_modification |-> tracked[i].last_modification]]]

\* serde_json::from_str(&chat_str): the skipped `content` of a TrackedFile
\* is String::default()
ChatFromJson(json) ==
    [messages |-> [i \in 1..Len(json.messages) |->
                       [role |-> RoleFromJson(json.messages[i].role),
                        content |-> json.messages[i].content]],
     tracked_files |-> [i \in 1..Len(json.tracked_files) |->
                            [path |-> json.tracked_files[i].path,
                             content |-> <<>>,
                             last_modification |->
                                 json.tracked_files[i].last_modification]]]

\* save_chat
SaveChat ==
    /\ pcTurn # "streaming"
    /\ cache' = [cache EXCEPT ![CacheFile(cwd)] =
                     Some(ChatToJson(messages, tracked_files))]
    /\ saved' = [saved EXCEPT ![cwd] =
                     Some([messages |-> messages,
                           tracked_files |-> tracked_files])]
    /\ UNCHANGED <<streamVars, diffVars, trackerVars, pcTurn, turn, turns,
                   cwd, lastLoad>>

\* remove_chat
RemoveChat ==
    /\ pcTurn # "streaming"
    /\ cache[CacheFile(cwd)].some
    /\ cache' = [cache EXCEPT ![CacheFile(cwd)] = None]
    /\ saved' = [saved EXCEPT ![cwd] = None]
    /\ UNCHANGED <<streamVars, diffVars, trackerVars, pcTurn, turn, turns,
                   cwd, lastLoad>>

\* the program is started in `dir` (main.rs 81-90): try_load_chat returns
\* the chat of the cache file of `dir`, or None when the file does not
\* exist, and then the chat is Chat::new
TryLoadChat(dir) ==
    /\ pcTurn \in {"idle", "answered", "failed", "crashed"}
    /\ \E chat \in {IF cache[CacheFile(dir)].some
                     THEN Some(ChatFromJson(cache[CacheFile(dir)].val))
                     ELSE None} :
           /\ messages' = IF chat.some THEN chat.val.messages ELSE <<>>
           /\ tracked_files' = IF chat.some THEN chat.val.tracked_files ELSE <<>>
           /\ lastLoad' = Some([dir |-> dir, saved |-> saved[dir],
                                ret |-> chat])
    /\ cwd' = dir
    /\ pcTurn' = "idle"
    /\ turn' = None
    /\ lastRef' = None
    /\ Restart
    /\ UNCHANGED <<events, stream, diffVars, files, now, service, ref, turns,
                   cache, saved>>

\* the largest number of messages of a chat that is saved
MaxStoredMessages == 2

\* the messages of tests::save_and_load_chat
StoredMessages ==
    {[role |-> "User", content |-> <<"Hello">>],
     [role |-> "System", content |-> <<"Hello, how are you?">>]}

\* the tracked files of a chat that is saved: with and without a content,
\* read at the earliest and at the latest time
StoredFiles ==
    {[path |-> p, content |-> c, last_modification |-> t] :
        p \in Paths, c \in {<<>>, <<"a", "\n">>}, t \in {0, MaxClock}}

\* a chat that add_message and process_file have filled (as in
\* tests::save_and_load_chat), in a directory whose files are removed
InitStore ==
    /\ events = <<>>
    /\ stream = <<>>
    /\ Start
    /\ DiffIdle
    /\ files = [p \in Paths |-> Missing]
    /\ now = MaxClock
    /\ tracked_files \in
           {<<>>} \cup {<<e>> : e \in StoredFiles}
               \cup {<<e[1], e[2]>> : e \in {p \in StoredFiles \X StoredFiles :
                                                 p[1].path # p[2].path}}
    /\ messages \in UNION {[1..n -> StoredMessages] : n \in 0..MaxStoredMessages}
    /\ lastRef = None
    /\ service = [p \in Paths |-> None]
    /\ ref = None
    /\ SessionIdle

NextStore ==
    \/ SaveChat
    \/ RemoveChat
    \/ \E dir \in Dirs : TryLoadChat(dir)

SpecStore == InitStore /\ [][NextStore]_vars

\* the response bodies of the turns
TurnBodies ==
    {<<>>, <<ContentEvent(<<"a">>), DoneEvent>>, <<ErrorEvent(<<"X">>)>>}

InitTurn ==
    /\ events \in TurnBodies
    /\ stream = Render(events)
    /\ Start
    /\ DiffIdle
    /\ TrackerIdle
    /\ SessionIdle

\* the pipeline of a turn; the transport yields the body as one chunk
Streaming ==
    \/ ProducerNext(Len(stream) - delivered)
    \/ ProducerSend
    \/ ProducerStreamEnd
    \/ ProducerTransportError
    \/ Join
    \/ ConsumerWrite
    \/ \E written \in BOOLEAN : ConsumerWriteFails(written)
    \/ ConsumerClosed

NextTurn ==
    \/ \E message_type \in MessageTypes, answered \in BOOLEAN :
           SendMessageWithStream(UserMessage(<<"hello">>), message_type,
                                 answered)
    \/ pcTurn = "streaming" /\ Streaming
    \/ TurnReturns
    \/ /\ pcTurn \in {"idle", "answered"}
       /\ \E content \in FileContents : WriteFile(<<"f">>, content)
    \/ pcTurn \in {"idle", "answered"} /\ RemoveFile(<<"f">>)

SpecTurn == InitTurn /\ [][NextTurn]_vars

\* ---------------------------------------------- turns of several files
\* the message types of turns that reference two files
FilesMessageTypes ==
    {MessageType("Code", None, Some(fs)) :
        fs \in {<<<<"f">>, <<"g">>>>, <<<<"g">>, <<"f">>>>}}

NextFiles ==
    \/ \E message_type \in FilesMessageTypes, answered \in BOOLEAN :
           SendMessageWithStream(UserMessage(<<"hello">>), message_type,
                                 answered)
    \/ pcTurn = "streaming" /\ Streaming
    \/ TurnReturns
    \/ /\ pcTurn \in {"idle", "answered"}
       /\ \E content \in FileContents : WriteFile(<<"f">>, content)
    \/ pcTurn \in {"idle", "answered"} /\ RemoveFile(<<"f">>)

SpecFiles == InitTurn /\ [][NextFiles]_vars

\* ------------------------------------------------------------ backpressure
\* the number of deltas of the response body beyond the channel's capacity
MaxExtraDeltas == 2

\* a response body of more deltas than the channel holds
LongBody ==
    [i \in 1..(ChannelCapacity + MaxExtraDeltas) |->
        ContentEvent(IF i % 2 = 1 THEN <<"a">> ELSE <<"b", "c">>)]

InitPressure ==
    /\ events = LongBody
    /\ stream = Render(events)
    /\ Start
    /\ DiffIdle
    /\ TrackerIdle
    /\ SessionIdle

\* the pipeline on a transport that yields the body one event per chunk
NextPressure ==
    \/ \E i \in 1..Len(events) :
           /\ EventEnd(i - 1) = delivered
           /\ ProducerNext(EventEnd(i) - delivered)
    \/ ProducerSend
    \/ ProducerStreamEnd
    \/ ProducerTransportError
    \/ Join
    \/ ConsumerWrite
    \/ \E written \in BOOLEAN : ConsumerWriteFails(written)
    \/ ConsumerClosed

SpecPressure == InitPressure /\ [][NextPressure]_vars

\* ------------------------------------------------------------ cancellation
\* (a variant in which a clone of the sender outlives the call)
AbandonKeepsSender ==
    /\ pcMain \in {"reading", "sending", "joining"}
    /\ pcMain' = "abandoned"
    /\ UNCHANGED <<events, stream, delivered, buffer, consumed, pending,
                   response, channel, senderOpen, receiverOpen, sink, flushed,
                   pcJob, jobError, message, ret, sent, last>>
    /\ UNCHANGED <<diffVars, trackerVars, sessionVars>>

\* the caller drops the future of send_message_with_stream while it waits
\* for the transport, for room in the channel or for the spawned task:
\* handle_stream's locals are dropped, the sender among them (a sender
\* handle_stream has returned with is dropped already); the JoinHandle is
\* dropped, which detaches the spawned task
Abandon ==
    /\ pcMain \in {"reading", "sending", "joining"}
    /\ pcMain' = "abandoned"
    /\ senderOpen' = FALSE
    /\ UNCHANGED <<events, stream, delivered, buffer, consumed, pending,
                   response, channel, receiverOpen, sink, flushed, pcJob,
                   jobError, message, ret, sent, last>>
    /\ UNCHANGED <<diffVars, trackerVars, sessionVars>>

NextCancel == Streaming \/ Abandon

\* the steps of the spawned task
ConsumerStep ==
    \/ ConsumerWrite
    \/ \E written \in BOOLEAN : ConsumerWriteFails(written)
    \/ ConsumerClosed

\* the runtime keeps running the spawned task
SpecCancel == Init /\ [][NextCancel]_vars /\ WF_vars(ConsumerStep)

\* ----------------------------------------------- the claims on the tracker
\* the path of the latest reference and its position in the tracked files
\* before the call (0 when it was not tracked)
RefPath == FilePath(lastRef.val.file)
RefIndex == Position(lastRef.val.tracked, RefPath, 1)

\* the latest reference was of a path that was not tracked / was tracked
RefUntracked == lastRef.some /\ RefIndex = 0
RefTracked == lastRef.some /\ RefIndex > 0

\* the tracked entry of the path before and after the latest reference
BaselineBefore == lastRef.val.tracked[RefIndex]
BaselineAfter == tracked_files[Position(tracked_files, RefPath, 1)]

\* the messages the latest reference appended
Appended == SubSeq(messages, lastRef.val.from + 1, Len(messages))

\* the marker `File: <path>[:start[-end]]` of each file argument
MarkerOf(file) ==
    CASE file = <<"f">> -> <<"File: ", "f">>
      [] file = <<"f", ":", "1", "-", "2">> -> <<"File: ", "f", ":", "1", "-", "2">>
      [] file = <<"f", ":", "2", "-">> -> <<"File: ", "f", ":", "2">>
      [] file = <<"g">> -> <<"File: ", "g">>

\* each content with every line prefixed by its 1-based number
NumberedOf(content) ==
    CASE content = <<>> -> <<>>
      [] content = <<"a", "\n">> -> <<"1", ": ", "a", "\n">>
      [] content = <<"a", "\n", "b", "\n">> ->
             <<"1", ": ", "a", "\n", "2", ": ", "b", "\n">>

\* a message is a diff block
IsDiffBlock(m) ==
    Len(m.content) > 0 /\ m.content[1] = "Here the updates of the file "

\* a first reference of a file of two lines, with a range
C16_Witness ==
    /\ RefUntracked
    /\ lastRef.val.on_disk.exists
    /\ lastRef.val.on_disk.content = <<"a", "\n", "b", "\n">>
    /\ lastRef.val.file = <<"f", ":", "2", "-">>
    /\ Len(messages) = 2

\* C16: a reference of a path that is not tracked appends the load-once
\* payload (`File: <path> [load-once]`, then the content as read with each
\* line numbered from 1), then the marker, computes no diff and adds the path
\* to the tracked files with that content as baseline.
C16_FirstReference ==
    RefUntracked =>
        /\ lastRef.val.ret = OkUnit
        /\ Len(Appended) = 2
        /\ Appended[1] = [role |-> "User",
                          content |-> <<"File: ">> \o RefPath
                                      \o <<" [load-once]\n\n">>
                                      \o NumberedOf(ContentOf(lastRef.val.on_disk))]
        /\ Appended[2] = [role |-> "User", content |-> MarkerOf(lastRef.val.file)]
        /\ Len(tracked_files) = Len(lastRef.val.tracked) + 1
        /\ SubSeq(tracked_files, 1, Len(lastRef.val.tracked)) = lastRef.val.tracked
        /\ tracked_files[Len(tracked_files)].path = RefPath
        /\ tracked_files[Len(tracked_files)].content = ContentOf(lastRef.val.on_disk)

\* the path was tracked and its file is not newer than the baseline
RefNotNewer ==
    /\ RefTracked
    /\ lastRef.val.on_disk.exists
    /\ lastRef.val.on_disk.modified <= BaselineBefore.last_modification

\* a second reference of an unchanged file, empty or not
C17_Witness ==
    /\ RefNotNewer
    /\ lastRef.val.on_disk.content # <<>>
    /\ Len(messages) = 3

\* C17: a reference of a tracked path whose file is not newer than the
\* baseline appends the marker `File: <path>[:start[-end]]` and nothing else.
C17_NoOp ==
    RefNotNewer =>
        /\ lastRef.val.ret = OkUnit
        /\ Appended = <<[role |-> "User", content |-> MarkerOf(lastRef.val.file)]>>

\* C18: when a reference of a tracked path whose file is newer than the
\* baseline and differs from it in content returns, it has appended a diff
\* block and then the marker, and the baseline is the file's content and
\* modification time.
C18_Modified ==
    (/\ RefTracked
     /\ lastRef.val.on_disk.exists
     /\ lastRef.val.on_disk.modified > BaselineBefore.last_modification
     /\ lastRef.val.on_disk.content # BaselineBefore.content
     /\ lastRef.val.ret # Panic)
    =>
        /\ lastRef.val.ret = OkUnit
        /\ Len(Appended) = 2
        /\ IsDiffBlock(Appended[1])
        /\ Appended[2] = [role |-> "User", content |-> MarkerOf(lastRef.val.file)]
        /\ BaselineAfter.content = lastRef.val.on_disk.content
        /\ BaselineAfter.last_modification = lastRef.val.on_disk.modified

\* C19: a reference of a tracked path whose file and metadata cannot be
\* read returns a tool error and leaves the tracked files as they were.
C19_FailureKeepsBaseline ==
    (RefTracked /\ ~lastRef.val.on_disk.exists) =>
        /\ lastRef.val.ret.tag = "Err"
        /\ lastRef.val.ret.variant = "ToolError"
        /\ tracked_files = lastRef.val.tracked

\* C20: the baseline of every tracked file is the file version whose
\* content the service was last sent, in full or as a diff: its content and
\* its modification time.
C20_BaselineIsSent ==
    \A i \in 1..Len(tracked_files) :
        LET e == tracked_files[i]
            sent_version == service[e.path]
        IN  sent_version.some =>
                /\ e.content = ContentOf(sent_version.val)
                /\ sent_version.val.exists =>
                       e.last_modification = sent_version.val.modified

\* C21: a reference of path p changes at most the tracked-file entry of p:
\* every other entry has, after the call, the path, the baseline content,
\* the baseline modification time and the position in the tracked files it
\* had before the call.
C21_FrameEffect ==
    lastRef.some =>
        \A i \in 1..Len(lastRef.val.tracked) :
            lastRef.val.tracked[i].path # RefPath =>
                /\ i <= Len(tracked_files)
                /\ tracked_files[i] = lastRef.val.tracked[i]

\* ------------------------------------------------ the claims on the session
\* the latest turn has ended with a transport, parse or provider error:
\* the request was not answered, or handle_stream returned an error
TurnFailed ==
    /\ pcTurn = "failed"
    /\ ret.tag = "Err"
    /\ ret.variant \in {"ProviderError", "StreamError"}

\* C22: when send_message_with_stream fails with a transport, parse or
\* provider error, the message list and the tracked files of the chat are
\* what they were before the call.
C22_FailureLeavesSession ==
    TurnFailed =>
        /\ messages = turn.val.messages
        /\ tracked_files = turn.val.tracked_files

Request == turn.val.request.val

\* the latest turn has handed a request to the provider and its message
\* type carries a user prompt
PromptHanded ==
    /\ turn.some
    /\ turn.val.request.some
    /\ turn.val.message_type.user_prompt.some

\* the first turn of a session, with a user prompt and without files, as
\* in tests::test_custom_user_message
C27_Witness ==
    /\ PromptHanded
    /\ turn.val.messages = <<>>
    /\ turn.val.message_type
           = MessageType("Code", Some(<<"I am an user">>), None)
    /\ Len(Request) = 4

\* C27: when the message type of a turn carries a user prompt, the message
\* list handed to the provider holds, after the messages of the earlier
\* turns, the turn's message and after it a User message whose content is
\* the prompt; when the session had no message, the general prompt and the
\* prompt of the message type are the first two messages, before both.
C27_UserPromptHanded ==
    PromptHanded =>
        \E i, j \in 1..Len(Request) :
            /\ Len(turn.val.messages) < i
            /\ i < j
            /\ Request[i] = turn.val.message
            /\ Request[j] = [role |-> "User",
                             content |-> turn.val.message_type.user_prompt.val]
            /\ turn.val.messages = <<>> =>
                   /\ 2 < i
                   /\ Request[1] = [role |-> "User", content |-> GENERAL]
                   /\ Request[2] =
                          [role |-> "User",
                           content |-> MessageTypeToString(turn.val.message_type)]

\* ------------------------------------------------ the claims on the channel
\* the channel is full and the producer has a delta to send
C24_Witness ==
    /\ Len(channel) = ChannelCapacity
    /\ pcMain = "sending"
    /\ pending # <<>>
    /\ receiverOpen

\* C24: the channel never holds more than 32 deltas; while it holds 32 no
\* send is accepted, and the next change of the channel is a receive (or
\* the end of a consumer whose sink has failed); no delta is dropped: as
\* long as the consumer has not failed, the deltas the channel has accepted
\* are those written to the sink followed by those the channel holds.
C24_Backpressure ==
    /\ [](Len(channel) <= 32)
    /\ [](~jobError => sink \o channel = sent)
    /\ [][Len(channel) = 32 =>
             /\ sent' = sent
             /\ channel' # channel =>
                    channel' = Tail(channel) \/ ~receiverOpen']_vars

\* the call is abandoned while the channel holds deltas the consumer has
\* not received
C25_Witness ==
    /\ pcMain = "abandoned"
    /\ pcJob = "receiving"
    /\ channel # <<>>

\* C25: once the caller has abandoned send_message_with_stream the
\* producer takes no further step and accepts no further delta, the
\* sender is dropped, and the consumer eventually ends with the receiver
\* (and the sink it owns) dropped.
C25_Cancellation ==
    /\ [](pcMain = "abandoned" => ~senderOpen)
    /\ [][pcMain = "abandoned" =>
             /\ pcMain' = "abandoned"
             /\ delivered' = delivered
             /\ sent' = sent]_vars
    /\ (pcMain = "abandoned") ~> (pcJob = "finished" /\ ~receiverOpen)

\* ------------------------------------------------ the claims on the line ids
\* from_lines has run on two texts that share a line and hold different lines
C26_Witness ==
    /\ diffs.some
    /\ \E i \in 1..Len(lines1), j \in 1..Len(lines2) : lines1[i] = lines2[j]
    /\ \E i, j \in 1..Len(lines1) : lines1[i] # lines1[j]
    /\ \E i, j \in 1..Len(lines2) : i # j /\ lines2[i] = lines2[j]

\* C26: from_lines gives every line of the old and of the new text an id;
\* two lines have the same id if and only if they are the same text; the
\* ids are 0, 1, 2, ... in the order in which the texts are first seen, the
\* old text before the new; two empty texts give two empty sequences.
C26_LineIds ==
    LET seqs == FromLines(lines1, lines2)
        ids == seqs[1].hashes \o seqs[2].hashes
        texts == lines1 \o lines2
        empty == FromLines(StrLines(<<>>), StrLines(<<>>))
    IN  /\ Len(seqs[1].hashes) = Len(lines1)
        /\ Len(seqs[2].hashes) = Len(lines2)
        /\ \A i, j \in 1..Len(texts) : ids[i] = ids[j] <=> texts[i] = texts[j]
        /\ \A i \in 1..Len(texts) :
               (\A k \in 1..(i - 1) : texts[k] # texts[i]) =>
                   ids[i] = Cardinality({texts[k] : k \in 1..(i - 1)})
        /\ empty[1].hashes = <<>>
        /\ empty[2].hashes = <<>>

\* ------------------------------------------------ the claims on the ranges
\* the range of the arguments `path:start-end` and `path:start`
RangeOf(file) ==
    CASE file = <<"f", ":", "1", "-", "2">> -> [start |-> 1, end |-> 2]
      [] file = <<"f", ":", "2">> -> [start |-> 2, end |-> 0]

\* C28: a file argument `path:start-end` yields the range {start, end}, an
\* argument `path:start` yields {start, end = 0}, and the marker of the
\* reference names that range; the same argument always yields the same
\* range.
C28_RangeOfArgument ==
    (/\ lastRef.some
     /\ lastRef.val.ret = OkUnit
     /\ lastRef.val.file \in {<<"f", ":", "1", "-", "2">>, <<"f", ":", "2">>}) =>
        /\ RangeFromFileArg(lastRef.val.file) = Some(RangeOf(lastRef.val.file))
        /\ messages[Len(messages)].content =
               <<"File: ">> \o <<"f">> \o
               (IF RangeOf(lastRef.val.file).end = 0
                THEN <<":">> \o FormatUsize(RangeOf(lastRef.val.file).start)
                ELSE RangeToString(RangeOf(lastRef.val.file)))

\* ------------------------------------------- the claims on the end of a turn
\* process_buffer has consumed a [DONE] event
DoneObserved ==
    \E i \in 1..Len(events) : events[i].kind = "done" /\ consumed >= EventEnd(i)

\* C29: once the decoder has observed [DONE] and the deltas decoded before
\* it are sent, handle_stream has dropped the sender and returned the
\* message: it does not wait at stream.next() for a further chunk or for the
\* end of the stream.
C29_ReturnsAtDone ==
    DoneObserved /\ pending = <<>> =>
        /\ pcMain \in {"joining", "returned"}
        /\ ~senderOpen

\* ------------------------------------------ the claims on the empty deltas
\* the number of events process_buffer has consumed
ConsumedEvents == Cardinality(EventsWithin(0, consumed))

NonEmpty(text) == text # <<>>

\* C30: a completion event yields a delta only if its text is present and
\* not empty: the deltas decoded are the non-empty texts of the events
\* consumed, and an event without delta, without content or with the empty
\* string as content yields none.
C30_DeltaOnlyForText ==
    Decoded = SelectSeq(Contents(SubSeq(events, 1, ConsumedEvents)), NonEmpty)

\* --------------------------------------------- the claims on parse failures
\* the string `part` occurs in the string `text`
Occurs(part, text) ==
    \E i \in 1..(Len(text) - Len(part) + 1) :
        SubSeq(text, i, i + Len(part) - 1) = part

\* the first event that fails a process_buffer call is one whose payload
\* has neither the completion nor the error shape, and it has been delivered
GarbageDelivered ==
    \E i \in 1..Len(events) :
        /\ events[i].kind = "garbage"
        /\ \A j \in 1..(i - 1) : events[j].kind \notin {"error", "garbage"}
        /\ delivered >= EventEnd(i)
        /\ consumed <= EventEnd(i - 1)

\* C31: when the payload of an event has neither the completion shape nor
\* the error shape, the call fails and the error returned to the caller holds
\* the raw payload, or a leading part of it, and not the parser's message
\* alone.
C31_ParseErrorHoldsPayload ==
    GarbageDelivered /\ pcMain = "returned" =>
        /\ ret.tag = "Err"
        /\ \E n \in 1..Len(Payload(GarbageEvent)) :
               Occurs(SubSeq(Payload(GarbageEvent), 1, n), ret.msg)

\* ------------------------------------------------ the claims on the advance
\* the events of the latest process_buffer call that end its scan
LastStops == {i \in LastEvents : Stops(events[i])}

\* the last event the latest process_buffer call has processed: the first
\* [DONE] when there is one, the last complete event else
LastProcessed ==
    IF LastStops = {} THEN LastFinal
    ELSE CHOOSE i \in LastStops : \A j \in LastStops : i <= j

\* a call has consumed two events and kept the partial event behind them
C32_Witness ==
    /\ last.res.tag = "Some"
    /\ Cardinality(LastEvents) >= 2
    /\ LastStops = {}
    /\ buffer # <<>>
    /\ SeparatorPos(buffer, 0) = -1

\* C32: after every process_buffer call the buffer is advanced to the offset
\* just past the separator of the last event the call has processed: never
\* beyond the buffer, never into a partial event at its end, and what stays
\* in the buffer is the part of the body delivered and not processed.
C32_AdvancePastProcessed ==
    /\ buffer = Slice(stream, consumed, delivered)
    /\ last.res.tag = "Some" =>
          /\ last.res.advance <= last.to - last.from
          /\ LastEvents # {}
          /\ last.from + last.res.advance = EventEnd(LastProcessed)
          /\ consumed = EventEnd(LastProcessed)
    /\ last.res.tag = "None" => LastEvents = {} /\ consumed = last.from
    /\ last.res.tag = "Err" => consumed = last.from

\* ----------------------------------------------- the claims on the tie-break
\* the forward search of from_myers_algorithm on the two texts
Forward ==
    LET seqs == FromLines(lines1, lines2)
        max == Len(lines1) + Len(lines2)
    IN  ForwardD(seqs[1], seqs[2], max, 0,
                 SignedArraySet(SignedArrayNew(max), 1, 0), <<>>)

\* the rounds d and diagonals k, not on the boundary of the round, at which
\* the furthest x of the diagonals k - 1 and k + 1 are equal, of the rounds
\* the search has completed; round d reads the values of round d - 1
Ties ==
    IF lines1 = <<>> \/ lines2 = <<>> \/ Forward.tag # "Ok" THEN {}
    ELSE {dk \in (1..(Len(Forward.trace) - 1)) \X (-Len(Forward.trace)..Len(Forward.trace)) :
             /\ -dk[1] < dk[2]
             /\ dk[2] < dk[1]
             /\ (dk[1] + dk[2]) % 2 = 0
             /\ SignedArrayGet(Forward.trace[dk[1]], dk[2] - 1) =
                    SignedArrayGet(Forward.trace[dk[1]], dk[2] + 1)}

\* the x round d has recorded for diagonal k after starting from (x, x - k)
Continues(d, k, x) ==
    LET seqs == FromLines(lines1, lines2)
    IN  SignedArrayGet(Forward.trace[d + 1], k) =
            AsI32(Snake(seqs[1], seqs[2], x, x - k))

\* the furthest x the two neighbours of diagonal k have at a tie of round d
TieX(d, k) == SignedArrayGet(Forward.trace[d], k + 1)

\* C33 as stated: at a tie of a diagonal that is not on the boundary, the
\* search continues from diagonal k + 1: it takes the insertion and starts
\* its snake at the x of that diagonal.
C33_TieTakesInsertion ==
    diffs # None =>
        \A dk \in Ties :
            /\ TakesInsertion(Forward.trace[dk[1]], dk[2], dk[1])
            /\ Continues(dk[1], dk[2], TieX(dk[1], dk[2]))

\* from_myers_algorithm has run on two texts whose search meets a tie
C33_Witness == diffs # None /\ Ties # {}

\* C33, amended: at a tie of a diagonal that is not on the boundary, the
\* search continues from diagonal k - 1: it takes the deletion and starts
\* its snake one past the x of that diagonal.
C33_TieTakesDeletion ==
    diffs # None =>
        \A dk \in Ties :
            /\ ~TakesInsertion(Forward.trace[dk[1]], dk[2], dk[1])
            /\ Continues(dk[1], dk[2], TieX(dk[1], dk[2]) + 1)

\* ------------------------------------------ the claims on unchanged content
\* the path was tracked and its file is newer than the baseline and has the
\* content of the baseline
RefSameContent ==
    /\ RefTracked
    /\ lastRef.val.on_disk.exists
    /\ lastRef.val.on_disk.modified > BaselineBefore.last_modification
    /\ lastRef.val.on_disk.content = BaselineBefore.content

\* a file of one line was written again with the same line and referenced
C34_Witness ==
    /\ RefSameContent
    /\ BaselineBefore.content = <<"a", "\n">>
    /\ Len(messages) = 3

\* C34: a reference of a tracked path whose file is newer than the baseline
\* and has the very content of the baseline, empty or not, appends no diff
\* block but the marker alone, and the baseline takes the modification time
\* of the file.
C34_SameContentNoBlock ==
    RefSameContent =>
        /\ lastRef.val.ret = OkUnit
        /\ Appended = <<[role |-> "User", content |-> MarkerOf(lastRef.val.file)]>>
        /\ BaselineAfter.content = lastRef.val.on_disk.content
        /\ BaselineAfter.last_modification = lastRef.val.on_disk.modified

\* -------------------------------------------- the claims on the diff block
\* the latest reference has appended a diff block
BlockAppended ==
    /\ RefTracked
    /\ lastRef.val.ret = OkUnit
    /\ Len(Appended) = 2
    /\ IsDiffBlock(Appended[1])

\* the edit script from the baseline to the file of the latest reference
RefScript ==
    LET seqs == FromLines(StrLines(BaselineBefore.content),
                          StrLines(lastRef.val.on_disk.content))
    IN  FromMyersAlgorithm(seqs[1], seqs[2]).diffs

\* the block under its heading `Here the updates of the file <path>:`
BlockBody ==
    SubSeq(Appended[1].content, Len(RefPath) + 3, Len(Appended[1].content))

\* C35: in the diff block every edit of the script is a line of its own, in
\* script order: `+ <n> <line>` for an Insert, `- <n> <line>` for a Delete,
\* `<n> <line>` for a Match, so that the lines of the block are the edits.
C35_BlockLines ==
    BlockAppended =>
        StrLines(BlockBody) =
            [i \in 1..Len(RefScript) |-> DiffToString(RefScript[i])]

\* ------------------------------------------ the claims on turns of files
\* C36: a file that cannot be read costs the turn that file alone: every
\* file the turn references is processed and the request of the turn is
\* sent, unless the program has ended in a panic.
C36_FailureAbortsOneFile ==
    (/\ turn.some
     /\ pcTurn # "crashed"
     /\ turn.val.message_type.kind = "Code"
     /\ turn.val.message_type.files.some) =>
        /\ turn.val.processed = Len(turn.val.message_type.files.val)
        /\ turn.val.request.some

\* ------------------------------------------- the claims on a failing call
\* the latest process_buffer call had a complete event in its buffer that
\* fails it: an error event or a payload of no shape, before any [DONE]
FailedCall == LastStops # {} /\ events[LastProcessed].kind # "done"

\* a call has failed on an event behind a content event of the same call,
\* after an earlier call has sent a delta
C37_Witness ==
    /\ FailedCall
    /\ sent # <<>>
    /\ \E i \in LastEvents : i < LastProcessed /\ events[i].kind = "content"

\* C37: when a process_buffer call fails on an event, handle_stream returns
\* the error: no delta of the events before it in that call is sent on the
\* channel or pushed onto the response, the buffer is not advanced and no
\* further chunk is read; the deltas of the earlier calls stay sent.
C37_FailedCallForwardsNothing ==
    FailedCall =>
        /\ last.res.tag = "Err"
        /\ pcMain = "returned"
        /\ ret = StreamError(last.res.msg)
        /\ pending = <<>>
        /\ sent = Contents(SubSeq(events, 1,
                                  Cardinality(EventsWithin(0, last.from))))
        /\ channel = sent
        /\ response = Flatten(sent)
        /\ consumed = last.from
        /\ buffer = Slice(stream, last.from, last.to)
        /\ delivered = last.to

\* --------------------------------- process_file against a concurrent writer
\* no process_file is between two of its accesses to the file system
RefIdle == IF ref.some THEN ref.val.pc = "done" ELSE TRUE

\* process_file on a tracked path up to get_diffs (core.rs lines 222-231):
\* the entry is removed; an entry without content is read
BeginTracked(file) ==
    /\ RefIdle
    /\ IF ref.some THEN ref.val.ret = OkUnit ELSE TRUE
    /\ Len(messages) < MaxFrameMessages
    /\ LET index == Position(tracked_files, FilePath(file), 1)
       IN  /\ index > 0
           /\ tracked_files' = Remove(tracked_files, index)
           /\ ref' = Some([pc |-> "check",
                           file |-> file,
                           index |-> index,
                           taken |-> tracked_files[index],
                           tracked_file |->
                               IF tracked_files[index].content = <<>>
                               THEN Read(tracked_files[index])
                               ELSE tracked_files[index],
                           diff_man |-> None,
                           new_side |-> None,
                           sent |-> FALSE,
                           ret |-> Pending])
    /\ UNCHANGED <<files, now, messages, lastRef, service, streamVars,
                   diffVars, sessionVars>>

\* process_file has returned `outcome`
RefReturns(outcome) == ref' = Some([ref.val EXCEPT !.pc = "done", !.ret = outcome])

\* get_diffs: std::fs::metadata and the comparison of the modification
\* times (reader.rs lines 52-55)
CheckModified ==
    /\ ref.some /\ ref.val.pc = "check"
    /\ LET readable == ref.val.tracked_file
       IN  IF ~files[readable.path].exists
           THEN RefReturns(ToolError(NotFoundText))
           ELSE IF UpToDate(readable, files[readable.path].modified)
           THEN ref' = Some([ref.val EXCEPT !.pc = "reread"])
           ELSE ref' = Some([ref.val EXCEPT !.pc = "diffread"])
    /\ UNCHANGED <<files, now, tracked_files, messages, lastRef, service,
                   streamVars, diffVars, sessionVars>>

\* get_diffs: read_to_string, from_lines and from_myers_algorithm
\* (reader.rs lines 57-61)
ReadForDiff ==
    /\ ref.some /\ ref.val.pc = "diffread"
    /\ LET readable == ref.val.tracked_file
       IN  IF ~files[readable.path].exists
           THEN RefReturns(ToolError(NotFoundText))
           ELSE \E diff_man \in
                    {LET seqs == FromLines(StrLines(readable.content),
                                           StrLines(files[readable.path].content))
                     IN  FromMyersAlgorithm(seqs[1], seqs[2])} :
                IF diff_man.tag = "Panic" THEN RefReturns(Panic)
                ELSE ref' = Some([ref.val EXCEPT
                                    !.pc = "reread",
                                    !.diff_man = Some(diff_man),
                                    !.new_side = Some(files[readable.path].content)])
    /\ UNCHANGED <<files, now, tracked_files, messages, lastRef, service,
                   streamVars, diffVars, sessionVars>>

\* process_file from the read behind get_diffs on (core.rs lines 239-261):
\* the read, with_diffs, the marker, the entry inserted again
RereadAndAppend ==
    /\ ref.some /\ ref.val.pc = "reread"
    /\ LET current == Read(ref.val.tracked_file)
           block == IF ref.val.diff_man.some
                    THEN WithDiffs(ref.val.diff_man.val, current.path)
                    ELSE <<>>
       IN  /\ messages' = messages \o block
                   \o <<UserMessage(ReferenceMarker(current,
                                       RangeFromFileArg(ref.val.file)))>>
           /\ tracked_files' = InsertAt(tracked_files, ref.val.index, current)
           /\ ref' = Some([ref.val EXCEPT !.pc = "done",
                                          !.tracked_file = current,
                                          !.sent = (block # <<>>),
                                          !.ret = OkUnit])
    /\ UNCHANGED <<files, now, lastRef, service, streamVars, diffVars,
                   sessionVars>>

\* references of paths without range; the first reference of a path is one
\* step, a reference of a tracked path is interleaved with the writers
NextRace ==
    \/ \E path \in Paths :
           /\ RefIdle
           /\ Position(tracked_files, path, 1) = 0
           /\ ProcessFile(path)
    \/ \E path \in Paths : BeginTracked(path)
    \/ CheckModified
    \/ ReadForDiff
    \/ RereadAndAppend
    \/ \E path \in Paths, content \in BlockContents : WriteFile(path, content)
    \/ \E path \in Paths : RemoveFile(path)

SpecRace == InitTracker /\ [][NextRace]_vars

\* the content the service holds of the path of the reference that has
\* returned: the new side of the diff block when one was appended, the
\* baseline the reference began with otherwise
ToldContent ==
    IF ref.val.sent THEN ref.val.new_side.val ELSE ref.val.taken.content

\* a reference of a tracked path with a baseline content has returned Ok
RefCompleted ==
    /\ ref.some
    /\ ref.val.pc = "done"
    /\ ref.val.ret = OkUnit
    /\ ref.val.taken.content # <<>>

\* C38: when a reference of a tracked path whose baseline held content
\* returns, the content stored as the new baseline is the content the
\* service has been told about, whatever a writer did between the check of
\* the modification time, the read for the diff and the read for the
\* baseline.
C38_BaselineIsToldContent ==
    RefCompleted => tracked_files[ref.val.index].content = ToldContent

\* ------------------------------------------- references after a restore
\* a session whose chat is saved and loaded again between the references of
\* its files, in a directory other programs write to
NextRestore ==
    \/ \E path \in Paths : ProcessFileWithin(path, MaxFrameMessages)
    \/ \E content \in BlockContents : WriteFile(<<"f">>, content)
    \/ SaveChat
    \/ TryLoadChat(cwd)

SpecRestore == InitTracker /\ [][NextRestore]_vars

\* the entry of the path of the latest reference, as the reference found it
RefEntry ==
    lastRef.val.tracked[Position(lastRef.val.tracked,
                                 FilePath(lastRef.val.file), 1)]

\* the latest reference is the first one of its path since the chat was
\* loaded from the cache file, the chat was saved with a content of the
\* path, and the file has been written with another content since the
\* modification time the cache file holds
RestoredRef ==
    /\ lastRef.some
    /\ lastLoad.some
    /\ lastLoad.val.ret.some
    /\ lastRef.val.ret = OkUnit
    /\ Position(lastRef.val.tracked, FilePath(lastRef.val.file), 1) > 0
    /\ RefEntry \in {lastLoad.val.ret.val.tracked_files[i] :
                         i \in DOMAIN lastLoad.val.ret.val.tracked_files}
    /\ RefEntry.content = <<>>
    /\ \E i \in DOMAIN lastLoad.val.saved.val.tracked_files :
           /\ lastLoad.val.saved.val.tracked_files[i].path = RefEntry.path
           /\ lastLoad.val.saved.val.tracked_files[i].content # <<>>
           /\ lastLoad.val.saved.val.tracked_files[i].content
                  # ContentOf(lastRef.val.on_disk)
    /\ lastRef.val.on_disk.exists
    /\ lastRef.val.on_disk.modified > RefEntry.last_modification

\* C39: the first reference of a tracked path after the chat was loaded
\* from its cache file, of a file written after the modification time the
\* cache file holds, appends more than the reference marker: a diff block
\* or the whole file.
C39_RestoredChangeIsSent ==
    RestoredRef => Len(messages) - lastRef.val.from >= 2

\* ------------------------------------------------------------- termination
\* the offsets in the long body at which its events end
LongBodyEnds ==
    [i \in 0..Len(LongBody) |-> Len(Render(SubSeq(LongBody, 1, i)))]

\* the steps of the calling task while the transport yields the long body
\* one event per chunk: handle_stream and `job.await`
ProducerStep ==
    \/ \E i \in 1..Len(LongBody) :
           /\ LongBodyEnds[i - 1] = delivered
           /\ ProducerNext(LongBodyEnds[i] - delivered)
    \/ ProducerSend
    \/ ProducerStreamEnd
    \/ Join

\* the pipeline on a body of more deltas than the channel holds, on a
\* runtime that keeps running the calling task and the spawned task and a
\* transport that yields the body to its end unless it fails
SpecLive ==
    /\ InitPressure
    /\ [][NextPressure]_vars
    /\ WF_vars(ProducerStep)
    /\ WF_vars(ConsumerStep)

\* the channel was full when write_at_end failed on the first delta it
\* received, and the send behind it has returned the channel's error
C40_Witness ==
    /\ pcMain = "returned"
    /\ ret = StreamError(SendErrorText)
    /\ jobError
    /\ Len(sent) = ChannelCapacity
    /\ Len(sink) <= 1
    /\ flushed = 0

\* C40: whatever the channel holds and however the two tasks interleave,
\* send_message_with_stream returns once the body has ended or the
\* transport has failed; a send that waits on a full channel fails when
\* write_at_end has ended on a sink error.
C40_EventuallyReturns == <>(pcMain = "returned")
====
